---- MODULE Spec2Model ----
(***************************************************************************)
(* A model of rank_crawler.py (class RankCrawler): the retrying fetch      *)
(* client, the page assembler, the five-list aggregator, the priority      *)
(* deduplication, and the DiskCache-backed snapshot store with its sweep.   *)
(*                                                                         *)
(* The module holds several specifications over one set of variables:      *)
(*   SpecDedupe  deduplicate_rank_data applied to bounded input maps       *)
(*   SpecFetch   fetch_with_retry, attempt by attempt, and                 *)
(*               fetch_portfolio_holdings, under the one semaphore          *)
(*   SpecAgg     fetch_all_rank_data awaiting fetch_rank_data per list     *)
(*   Spec        the snapshot store: run_update, save_rank_data,           *)
(*               clean_expired_cache, get_cached_rank_list_with_auto_update*)
(*   SpecDate    get_target_date over the days of a week                   *)
(*   SpecTc      tc_list: the portfolio universe, the holding-change       *)
(*               records of each portfolio, the events returned            *)
(*   SpecSummary get_stock_summary on bounded lists of events              *)
(*   SpecConc    refresh cycles of the scheduler and of a read-through     *)
(*               caller interleaved, one cache operation per step          *)
(*   SpecSched   setup_schedule, start_scheduler's loop, stop_scheduler    *)
(* A specification leaves the variables of the others at their initial     *)
(* values.                                                                 *)
(***************************************************************************)
EXTENDS Integers, Sequences, FiniteSets, TLC

VARIABLES
    dd_data,        \* SpecDedupe: the map handed to deduplicate_rank_data
    dd_out,         \* SpecDedupe: the map it returned
    dd_pc,          \* SpecDedupe: "input" | "done"
    f_call,         \* SpecFetch: per task, the fetch_with_retry call it is in
    f_permits,      \* SpecFetch: the value of self.semaphore
    f_size,         \* SpecFetch: max_concurrent_requests of the constructor
    a_pc,           \* SpecAgg: "idle" | "fetching" | "done" (fetch_all_rank_data)
    a_idx,          \* SpecAgg: index in RankTypes of the task being awaited
    a_loop,         \* SpecAgg: the locals of the fetch_rank_data being awaited
    a_results,      \* SpecAgg: results of fetch_all_rank_data
    a_last,         \* SpecAgg: the fetch_rank_data call that returned last
    a_got,          \* SpecAgg: the rank types the upstream sent an entry for
    now,            \* Spec: datetime.now(), in hours since 00:00 of day 0
    cache,          \* Spec: self.cache, the DiskCache store (key -> value)
    s_main,         \* Spec: rank_crawler.py runs as __main__ (else: imported)
    s_dedup,        \* Spec: self.enable_deduplication
    s_down,         \* Spec: the rank types whose page requests fail upstream
    s_call,         \* Spec: the call that returned last and what it returned
    td_in,          \* SpecDate: datetime.now() and days_back of get_target_date
    td_out,         \* SpecDate: the day it returned
    tc_env,         \* SpecTc: what fetch_all_rank_data and the read-through return
    tc_pc,          \* SpecTc: "idle" | "await" | "records" | "done" (tc_list)
    tc_load,        \* SpecTc: use_cache, cached_data and the calls that got it
    tc_portfolios,  \* SpecTc: portfolios of tc_list
    tc_next,        \* SpecTc: index in portfolios of the task awaited next
    tc_results,     \* SpecTc: results of tc_list
    tc_last,        \* SpecTc: the record handled last and the events it added
    ss_in,          \* SpecSummary: records of tc_list and the lists of the snapshot
    ss_out,         \* SpecSummary: the list get_stock_summary returned
    cv_cfg,         \* SpecConc: enable_deduplication; the reader runs as __main__
    cv_cache,       \* SpecConc: the DiskCache directory both crawlers open
    cv_proc,        \* SpecConc: per caller, where its refresh cycle is
    cv_produced,    \* SpecConc: merged_data of every cycle so far, in order
    h_call,         \* SpecFetch: per task, its fetch_portfolio_holdings call
    sc_jobs,        \* SpecSched: schedule.jobs, the default scheduler's list
    sc_now,         \* SpecSched: the clock, in seconds
    sc_running,     \* SpecSched: self.running
    sc_ran,         \* SpecSched: the update_job calls of the last run_pending
    j_cfg,          \* SpecJob: the module's ENABLE_TRADING_TIME_CHECK
    j_jobs,         \* SpecJob: the number of jobs in schedule.jobs
    j_running,      \* SpecJob: self.running
    j_pc,           \* SpecJob: where the thread in start_scheduler is
    j_todo,         \* SpecJob: the due jobs run_pending has yet to run
    j_clock,        \* SpecJob: the datetime.now() update_job has just read
    j_refresh,      \* SpecJob: the run_update calls of update_job, in order
    j_latest        \* SpecJob: the refresh whose snapshot is under 'latest'

dedupeVars == <<dd_data, dd_out, dd_pc>>
fetchVars == <<f_call, f_permits, f_size>>
aggVars == <<a_pc, a_idx, a_loop, a_results, a_last, a_got>>
storeVars == <<now, cache, s_main, s_dedup, s_down, s_call>>
dateVars == <<td_in, td_out>>
tcVars == <<tc_env, tc_pc, tc_load, tc_portfolios, tc_next, tc_results, tc_last>>
\* the variables of the specifications of the rebalance-event side
sumVars == <<ss_in, ss_out>>
concVars == <<cv_cfg, cv_cache, cv_proc, cv_produced>>
holdVars == <<h_call>>
schedVars == <<sc_jobs, sc_now, sc_running, sc_ran>>
jobVars == <<j_cfg, j_jobs, j_running, j_pc, j_todo, j_clock, j_refresh,
             j_latest>>
laterVars == <<dateVars, tcVars, sumVars, concVars, holdVars, schedVars,
               jobVars>>
vars == <<dd_data, dd_out, dd_pc, f_call, f_permits, f_size,
          a_pc, a_idx, a_loop, a_results, a_last, a_got,
          now, cache, s_main, s_dedup, s_down, s_call,
          td_in, td_out,
          tc_env, tc_pc, tc_load, tc_portfolios, tc_next, tc_results, tc_last,
          ss_in, ss_out,
          cv_cfg, cv_cache, cv_proc, cv_produced,
          h_call, sc_jobs, sc_now, sc_running, sc_ran,
          j_cfg, j_jobs, j_running, j_pc, j_todo, j_clock, j_refresh, j_latest>>

\* what an action of one specification leaves alone
notDedupeVars == <<fetchVars, aggVars, storeVars, laterVars>>
notFetchVars == <<dedupeVars, aggVars, storeVars, laterVars>>
notAggVars == <<dedupeVars, fetchVars, storeVars, laterVars>>
notStoreVars == <<dedupeVars, fetchVars, aggVars, laterVars>>
notDateVars == <<dedupeVars, fetchVars, aggVars, storeVars, tcVars, sumVars,
                 concVars, holdVars, schedVars, jobVars>>
notTcVars == <<dedupeVars, fetchVars, aggVars, storeVars, dateVars, sumVars,
               concVars, holdVars, schedVars, jobVars>>
notSumVars == <<dedupeVars, fetchVars, aggVars, storeVars, dateVars, tcVars,
                concVars, holdVars, schedVars, jobVars>>
notConcVars == <<dedupeVars, fetchVars, aggVars, storeVars, dateVars, tcVars,
                 sumVars, holdVars, schedVars, jobVars>>
\* a fetch_portfolio_holdings step takes or returns a permit of the semaphore
\* that fetch_with_retry uses and leaves the fetch_with_retry calls alone
notHoldVars == <<f_call, f_size, dedupeVars, aggVars, storeVars, dateVars,
                 tcVars, sumVars, concVars, schedVars, jobVars>>
notSchedVars == <<dedupeVars, fetchVars, aggVars, storeVars, dateVars, tcVars,
                  sumVars, concVars, holdVars, jobVars>>
notJobVars == <<dedupeVars, fetchVars, aggVars, storeVars, dateVars, tcVars,
                sumVars, concVars, holdVars, schedVars>>

(***************************************************************************)
(* Bounds of the model.                                                    *)
(***************************************************************************)
\* portfolio ids are 1..MaxId; NoId stands for a missing or empty zjzh
MaxId == 2
\* entries in one input map of SpecDedupe, all categories together
MaxEntries == 3
\* the largest max_retries a caller of fetch_with_retry passes (the default is 3)
MaxRetries == 3
\* the largest max_concurrent_requests a crawler is constructed with
MaxConcurrent == 2
\* recCnt of every rank type (count = 100 in the source), scaled down
count == 3
\* page_size of fetch_rank_data (20 in the source), scaled down
page_size == 2
\* how many entries more than it was asked for one upstream page may carry
Overlong == 1
\* the longest list the upstream holds for a rank type during a refresh of Spec
MaxList == 2
\* how many hours the clock of Spec advances
MaxTicks == 2
\* the largest expire_hours clean_expired_cache is called with directly
MaxWindow == 1

(***************************************************************************)
(* Data.                                                                   *)
(***************************************************************************)
\* self.rank_types, in the insertion order of the dict
RankTypes == <<"daily", "weekly", "monthly", "yearly", "total">>
Categories == {RankTypes[i] : i \in 1..Len(RankTypes)}

\* a zjzh that item.get('zjzh') finds missing or empty (falsy)
NoId == 0
Ids == 1..MaxId

\* the default of x.get('rank', 999) and of rank_priority.get(rank_type, 999)
Default999 == 999

\* rank_priority: a smaller number is a higher priority
rank_priority(rank_type) ==
    CASE rank_type = "total"   -> 1
      [] rank_type = "yearly"  -> 2
      [] rank_type = "monthly" -> 3
      [] rank_type = "weekly"  -> 4
      [] rank_type = "daily"   -> 5
      [] OTHER                 -> Default999

\* a python dict keyed by rank type, with no key
EmptyMap == [c \in {} |-> <<>>]

\* the keys of a rank-type dict in insertion order: fetch_all_rank_data inserts
\* in the order of self.rank_types, deduplicate_rank_data keeps the order
KeysOf(data) == SelectSeq(RankTypes, LAMBDA c : c \in DOMAIN data)

\* data[key] = value
SetKey(data, key, value) ==
    [c \in DOMAIN data \cup {key} |-> IF c = key THEN value ELSE data[c]]

\* one entry of a ranked list as fetch_rank_data leaves it
Item(id, rank, rank_type) == [zjzh |-> id, rank |-> rank, rank_type |-> rank_type]

RECURSIVE SumSeq(_)
SumSeq(s) == IF s = <<>> THEN 0 ELSE Head(s) + SumSeq(Tail(s))

\* sum(len(rank_data.get('data', [])) for rank_data in data.values())
TotalRecords(data) ==
    LET keys == KeysOf(data)
    IN SumSeq([i \in 1..Len(keys) |-> Len(data[keys[i]])])

(***************************************************************************)
(* The values the variables of a specification keep while another runs.    *)
(***************************************************************************)
\* no map returned yet
NoMap == [none |-> TRUE]

DedupeIdle ==
    /\ dd_data = EmptyMap
    /\ dd_out = NoMap
    /\ dd_pc = "idle"

\* the coroutines of the crawler's event loop that call fetch_with_retry
Tasks == {"t1", "t2"}

\* a task that is in no call
NoCall == [pc |-> "idle", max_retries |-> 0, attempt |-> 0, gets |-> 0,
           last |-> "none", slept |-> FALSE, ret |-> "none"]

FetchIdle ==
    /\ f_call = [t \in Tasks |-> NoCall]
    /\ f_permits = 0
    /\ f_size = 0

\* the locals of fetch_rank_data before its loop: all_data = [], current_page
\* = 0; asked counts the fetch_with_retry calls it has made
LoopStart == [all_data |-> <<>>, current_page |-> 0, asked |-> 0, looping |-> TRUE]

\* no fetch_rank_data call has returned
NoFetch == [rank_type |-> "none", arrived |-> <<>>, returned |-> FALSE, data |-> <<>>]

AggIdle ==
    /\ a_pc = "idle"
    /\ a_idx = 0
    /\ a_loop = LoopStart
    /\ a_results = EmptyMap
    /\ a_last = NoFetch
    /\ a_got = {}

\* hours in a day: strptime(date_str, '%Y%m%d') is 00:00 of that day
HoursPerDay == 24

\* the keys of self.cache:
\*   latest   "latest_rank_data"
\*   date     "rank_data_" + YYYYMMDD of day t
\*   stamp    "rank_data_" + YYYYMMDD_HHMMSS of hour t (the old format)
\*   corrupt  "rank_data_" + a suffix that is no timestamp
Key(kind, t) == [kind |-> kind, t |-> t]
LatestKey == Key("latest", 0)
CorruptKey == Key("corrupt", 0)

\* merged_data of save_rank_data
Snapshot(timestamp, data, total_records) ==
    [timestamp |-> timestamp, date |-> timestamp \div HoursPerDay,
     total_records |-> total_records, data |-> data]

\* the {} that get_cached_rank_list_with_auto_update returns on failure
EmptyDict == Snapshot(0, EmptyMap, 0)

EmptyCache == [k \in {} |-> EmptyDict]

\* no call has returned since the clock last moved
NoOp == [op |-> "none", hit |-> FALSE, ok |-> FALSE, ret_kind |-> "none",
         ret |-> EmptyDict, cycles |-> 0, requests |-> 0, fetched |-> EmptyMap,
         saved |-> FALSE, save_returned |-> FALSE, merged |-> EmptyDict,
         window |-> 0]

StoreIdle ==
    /\ now = 0
    /\ cache = EmptyCache
    /\ s_main = FALSE
    /\ s_dedup = FALSE
    /\ s_down = {}
    /\ s_call = NoOp

\* get_target_date has not been called and has returned no day
NoDay == 0
NoNow == [day |-> 0, minute |-> 0, days_back |-> 0]

DateIdle ==
    /\ td_in = NoNow
    /\ td_out = NoDay

\* Python's None
None == [py_none |-> TRUE]

\* no record of a holding-change list has been handled
NoRecord == [seen |-> 0, in_list |-> 0, record |-> None, events |-> <<>>,
             failed |-> {}]

\* tc_list has not been called
NoLoad == [use_cache |-> FALSE, cached_data |-> None, fetch_all_calls |-> 0,
           read_through_calls |-> 0]

TcIdle ==
    /\ tc_env = [fresh |-> EmptyMap, store |-> EmptyDict]
    /\ tc_pc = "idle"
    /\ tc_load = NoLoad
    /\ tc_portfolios = <<>>
    /\ tc_next = 0
    /\ tc_results = <<>>
    /\ tc_last = NoRecord

\* get_stock_summary has not returned
NoSummary == [returned |-> FALSE, result |-> <<>>]

SumIdle ==
    /\ ss_in = [records |-> <<>>, lists |-> EmptyMap]
    /\ ss_out = NoSummary

\* the callers whose refresh cycles interleave: update_job of the scheduler
\* and a get_cached_rank_list_with_auto_update call of another crawler
Callers == {"scheduler", "reader"}

\* a caller that is in no refresh cycle
NoCycle == [pc |-> "idle", cycle |-> 0, fetched |-> EmptyMap,
            merged |-> EmptyDict, ok |-> FALSE]

ConcIdle ==
    /\ cv_cfg = [dedup |-> FALSE, reader_main |-> FALSE]
    /\ cv_cache = EmptyCache
    /\ cv_proc = [p \in Callers |-> NoCycle]
    /\ cv_produced = <<>>

\* the coroutines of the crawler's event loop that call
\* fetch_portfolio_holdings (tc_list makes one per portfolio)
HoldingsTasks == {"h1"}

\* a task that is in no fetch_portfolio_holdings call
NoHoldings == [pc |-> "idle", last |-> "none", ret |-> "none"]

HoldIdle == h_call = [t \in HoldingsTasks |-> NoHoldings]

\* schedule.jobs is empty when the module is imported; start_scheduler has
\* not been called
SchedIdle ==
    /\ sc_jobs = <<>>
    /\ sc_now = 0
    /\ sc_running = FALSE
    /\ sc_ran = 0

\* now of is_trading_time is a local: it is gone with the next step of the
\* scheduler thread
NoClock == [weekday |-> 0, second |-> 0, microsecond |-> 0]

\* no update_job has run: the thread of start_scheduler does not exist, no
\* refresh was started and 'latest' holds no snapshot of one
JobIdle ==
    /\ j_cfg = "unset"
    /\ j_jobs = 0
    /\ j_running = FALSE
    /\ j_pc = "off"
    /\ j_todo = 0
    /\ j_clock = NoClock
    /\ j_refresh = <<>>
    /\ j_latest = 0

LaterIdle ==
    DateIdle /\ TcIdle /\ SumIdle /\ ConcIdle /\ HoldIdle /\ SchedIdle /\ JobIdle

(***************************************************************************)
(* deduplicate_rank_data                                                   *)
(***************************************************************************)
\* position of portfolio_id among the keys of portfolio_map, 0 when absent
RECURSIVE IndexOfId(_, _, _)
IndexOfId(portfolio_map, portfolio_id, i) ==
    IF i > Len(portfolio_map) THEN 0
    ELSE IF portfolio_map[i].id = portfolio_id THEN i
    ELSE IndexOfId(portfolio_map, portfolio_id, i + 1)

\* OfferItem without the priority comparison: the list read first keeps the id
OfferItemFirstWins(portfolio_map, priority, rank_type, item, pos) ==
    LET entry == [id |-> item.zjzh, priority |-> priority,
                  rank_type |-> rank_type, item |-> item, pos |-> pos]
        at == IndexOfId(portfolio_map, item.zjzh, 1)
    IN IF item.zjzh = NoId THEN portfolio_map
       ELSE IF at = 0 THEN Append(portfolio_map, entry)
       ELSE portfolio_map

\* the body of the inner loop: one item of one list offered to portfolio_map.
\* A dict keeps a key at the place of its first insertion when its value is
\* replaced.
OfferItem(portfolio_map, priority, rank_type, item, pos) ==
    LET entry == [id |-> item.zjzh, priority |-> priority,
                  rank_type |-> rank_type, item |-> item, pos |-> pos]
        at == IndexOfId(portfolio_map, item.zjzh, 1)
    IN IF item.zjzh = NoId THEN portfolio_map
       ELSE IF at = 0 THEN Append(portfolio_map, entry)
       ELSE IF priority < portfolio_map[at].priority
            THEN [portfolio_map EXCEPT ![at] = entry]
       ELSE portfolio_map

\* for item in rank_data.get('data', [])
RECURSIVE OfferList(_, _, _, _)
OfferList(portfolio_map, rank_type, items, i) ==
    IF i > Len(items) THEN portfolio_map
    ELSE OfferList(OfferItem(portfolio_map, rank_priority(rank_type), rank_type,
                             items[i], i),
                   rank_type, items, i + 1)

\* for rank_type, rank_data in data.items()
RECURSIVE BuildPortfolioMap(_, _, _, _)
BuildPortfolioMap(portfolio_map, data, keys, k) ==
    IF k > Len(keys) THEN portfolio_map
    ELSE BuildPortfolioMap(OfferList(portfolio_map, keys[k], data[keys[k]], 1),
                           data, keys, k + 1)

PortfolioMap(data) == BuildPortfolioMap(<<>>, data, KeysOf(data), 1)

\* list.sort(key=lambda x: x.get('rank', 999)) is stable: an item is placed
\* after the items already placed whose key is not larger
RECURSIVE InsertByRank(_, _)
InsertByRank(sorted, item) ==
    IF sorted = <<>> THEN <<item>>
    ELSE IF sorted[Len(sorted)].rank <= item.rank THEN Append(sorted, item)
    ELSE Append(InsertByRank(SubSeq(sorted, 1, Len(sorted) - 1), item),
                sorted[Len(sorted)])

\* a sort by rank that puts the larger rank first
RECURSIVE SortByRankDescending(_)
SortByRankDescending(items) ==
    IF items = <<>> THEN <<>>
    ELSE LET rest == SortByRankDescending(SubSeq(items, 1, Len(items) - 1))
             item == items[Len(items)]
             before == SelectSeq(rest, LAMBDA x : x.rank >= item.rank)
             after == SelectSeq(rest, LAMBDA x : x.rank < item.rank)
         IN before \o <<item>> \o after

RECURSIVE SortByRank(_)
SortByRank(items) ==
    IF items = <<>> THEN <<>>
    ELSE InsertByRank(SortByRank(SubSeq(items, 1, Len(items) - 1)),
                      items[Len(items)])

\* Rerank that leaves every item the rank it came with
RerankKeepingOld(items) == items

\* for i, item in enumerate(rank_data['data'], 1): item['rank'] = i
Rerank(items) == [i \in 1..Len(items) |-> [items[i] EXCEPT !.rank = i]]

\* the entries of portfolio_map that go back to list rank_type, in the order
\* of portfolio_map
AssignedTo(portfolio_map, rank_type) ==
    SelectSeq(portfolio_map, LAMBDA e : e.rank_type = rank_type)

ItemsOf(entries) == [i \in 1..Len(entries) |-> entries[i].item]

\* the returned deduplicated_data: every key of the input, each with the
\* items portfolio_map kept for it, sorted by their old rank and re-ranked
deduplicate_rank_data(data) ==
    LET portfolio_map == PortfolioMap(data)
    IN [rank_type \in DOMAIN data |->
          Rerank(SortByRank(ItemsOf(AssignedTo(portfolio_map, rank_type))))]

\* the input as the call leaves it: the items are shared with the output, so
\* item['rank'] = i also writes the rank of the input item that survived
InputAfterDedupe(data) ==
    LET portfolio_map == PortfolioMap(data)
        NewRank(rank_type, pos) ==
            LET kept == SortByRank(ItemsOf(AssignedTo(portfolio_map, rank_type)))
                at == CHOOSE i \in 1..Len(kept) : kept[i] = data[rank_type][pos]
            IN at
        Survives(rank_type, pos) ==
            \E i \in 1..Len(portfolio_map) :
                /\ portfolio_map[i].rank_type = rank_type
                /\ portfolio_map[i].pos = pos
    IN [rank_type \in DOMAIN data |->
          [pos \in 1..Len(data[rank_type]) |->
             IF Survives(rank_type, pos)
             THEN [data[rank_type][pos] EXCEPT !.rank = NewRank(rank_type, pos)]
             ELSE data[rank_type][pos]]]

(***************************************************************************)
(* fetch_with_retry, one step per await.  A task is a coroutine of the     *)
(* crawler's event loop that calls it; the semaphore is the crawler's.     *)
(***************************************************************************)
\* what one GET of the retry loop can come to:
\*   ok          status 200, a JSON object whose 'result' is '0'
\*   http_error  a status other than 200
\*   api_error   status 200, a JSON object whose 'result' is not '0'
\*   bad_json    status 200, json.loads raises JSONDecodeError
\*   not_dict    status 200, JSON that is no object: the warning's data.get
\*               raises AttributeError, which the outer except catches
\*   net_error   session.get or response.text raises (timeout, connection)
Outcomes == {"ok", "http_error", "api_error", "bad_json", "not_dict", "net_error"}
\* the failures the loop only logs
Logged == {"http_error", "api_error", "bad_json"}
\* the failures that reach "except Exception"
Raised == {"not_dict", "net_error"}

\* RankCrawler(max_concurrent_requests=n): self.semaphore = Semaphore(n)
InitFetch ==
    /\ f_size \in 1..MaxConcurrent
    /\ f_permits = f_size
    /\ f_call = [t \in Tasks |-> NoCall]
    /\ DedupeIdle
    /\ AggIdle
    /\ StoreIdle
    /\ LaterIdle

\* a task calls fetch_with_retry(url, max_retries) and reaches the semaphore
FetchCall(t, max_retries) ==
    /\ f_call[t].pc = "idle"
    /\ f_call' = [f_call EXCEPT ![t] = [NoCall EXCEPT !.pc = "acquire",
                                                       !.max_retries = max_retries]]
    /\ UNCHANGED <<f_permits, f_size, notFetchVars>>

\* Acquire with no semaphore in front of the loop
AcquireUnlimited(t) ==
    /\ f_call[t].pc = "acquire"
    /\ f_permits' = f_permits - 1
    /\ f_call' = [f_call EXCEPT ![t].pc =
                     IF f_call[t].max_retries = 0 THEN "delay" ELSE "request"]
    /\ UNCHANGED <<f_size, notFetchVars>>

\* async with self.semaphore: entered once, before the loop; range(0) runs no
\* attempt and goes on to the closing sleep
Acquire(t) ==
    /\ f_call[t].pc = "acquire"
    /\ f_permits > 0
    /\ f_permits' = f_permits - 1
    /\ f_call' = [f_call EXCEPT ![t].pc =
                     IF f_call[t].max_retries = 0 THEN "delay" ELSE "request"]
    /\ UNCHANGED <<f_size, notFetchVars>>

\* Attempt with a loop that stops at the first failure
AttemptOnce(t, outcome) ==
    LET c == f_call[t]
    IN /\ c.pc = "request"
       /\ IF outcome = "ok"
          THEN /\ f_call' = [f_call EXCEPT ![t] = [c EXCEPT !.pc = "done",
                                 !.gets = c.gets + 1, !.last = outcome,
                                 !.slept = FALSE, !.ret = "data"]]
               /\ f_permits' = f_permits + 1
          ELSE /\ f_call' = [f_call EXCEPT ![t] = [c EXCEPT !.pc = "delay",
                                 !.attempt = c.attempt + 1,
                                 !.gets = c.gets + 1, !.last = outcome,
                                 !.slept = FALSE]]
               /\ UNCHANGED f_permits
       /\ UNCHANGED <<f_size, notFetchVars>>

\* Attempt with the semaphore taken inside the loop, once per pass
AttemptPermitPerPass(t, outcome) ==
    LET c == f_call[t]
        last_pass == c.attempt + 1 >= c.max_retries
    IN /\ c.pc = "request"
       /\ IF outcome = "ok"
          THEN /\ f_call' = [f_call EXCEPT ![t] = [c EXCEPT !.pc = "done",
                                 !.gets = c.gets + 1, !.last = outcome,
                                 !.slept = FALSE, !.ret = "data"]]
               /\ f_permits' = f_permits + 1
          ELSE IF last_pass
          THEN /\ f_call' = [f_call EXCEPT ![t] = [c EXCEPT !.pc = "delay",
                                 !.attempt = c.attempt + 1,
                                 !.gets = c.gets + 1, !.last = outcome,
                                 !.slept = FALSE]]
               /\ UNCHANGED f_permits
          ELSE /\ f_call' = [f_call EXCEPT ![t] = [c EXCEPT !.pc = "acquire",
                                 !.attempt = c.attempt + 1,
                                 !.gets = c.gets + 1, !.last = outcome,
                                 !.slept = FALSE]]
               /\ f_permits' = f_permits + 1
       /\ UNCHANGED <<f_size, notFetchVars>>

\* one pass of "for attempt in range(max_retries)": the GET and what follows
\* it.  'return data' leaves the with block, which releases the permit, and
\* skips the closing sleep.  A logged failure goes straight to the next pass;
\* a raised one sleeps 1 s first unless it was the last pass.
Attempt(t, outcome) ==
    LET c == f_call[t]
        last_pass == c.attempt + 1 >= c.max_retries
    IN /\ c.pc = "request"
       /\ IF outcome = "ok"
          THEN /\ f_call' = [f_call EXCEPT ![t] = [c EXCEPT !.pc = "done",
                                 !.gets = c.gets + 1, !.last = outcome,
                                 !.slept = FALSE, !.ret = "data"]]
               /\ f_permits' = f_permits + 1
          ELSE IF outcome \in Raised /\ ~last_pass
          THEN /\ f_call' = [f_call EXCEPT ![t] = [c EXCEPT !.pc = "backoff",
                                 !.gets = c.gets + 1, !.last = outcome,
                                 !.slept = FALSE]]
               /\ UNCHANGED f_permits
          ELSE /\ f_call' = [f_call EXCEPT ![t] = [c EXCEPT
                                 !.pc = IF last_pass THEN "delay" ELSE "request",
                                 !.attempt = c.attempt + 1,
                                 !.gets = c.gets + 1, !.last = outcome,
                                 !.slept = FALSE]]
               /\ UNCHANGED f_permits
       /\ UNCHANGED <<f_size, notFetchVars>>

\* await asyncio.sleep(1) in the except branch is over: the next pass
BackoffDone(t) ==
    /\ f_call[t].pc = "backoff"
    /\ f_call' = [f_call EXCEPT ![t].pc = "request",
                                ![t].attempt = f_call[t].attempt + 1,
                                ![t].slept = TRUE]
    /\ UNCHANGED <<f_permits, f_size, notFetchVars>>

\* the loop ran out: await asyncio.sleep(0.1) inside the with block, then the
\* block ends (the permit goes back) and the function returns None
DelayDone(t) ==
    /\ f_call[t].pc = "delay"
    /\ f_call' = [f_call EXCEPT ![t].pc = "done", ![t].ret = "None"]
    /\ f_permits' = f_permits + 1
    /\ UNCHANGED <<f_size, notFetchVars>>

\* the caller has the result; the task is free for its next call
FetchReturn(t) ==
    /\ f_call[t].pc = "done"
    /\ f_call' = [f_call EXCEPT ![t] = NoCall]
    /\ UNCHANGED <<f_permits, f_size, notFetchVars>>

\* a task calls fetch_portfolio_holdings(portfolio_id) and reaches the
\* semaphore
HoldingsCall(t) ==
    /\ h_call[t].pc = "idle"
    /\ h_call' = [h_call EXCEPT ![t] = [NoHoldings EXCEPT !.pc = "acquire"]]
    /\ UNCHANGED <<f_permits, notHoldVars>>

\* async with self.semaphore, then the one GET is sent
HoldingsAcquire(t) ==
    /\ h_call[t].pc = "acquire"
    /\ f_permits > 0
    /\ f_permits' = f_permits - 1
    /\ h_call' = [h_call EXCEPT ![t].pc = "request"]
    /\ UNCHANGED notHoldVars

\* the GET is over: the body is returned when its 'result' is '0'; a status
\* other than 200 and another 'result' return None; response.json() raising,
\* data.get raising and the GET raising reach "except Exception", which
\* returns None.  Every return goes through the finally block first.
HoldingsGet(t, outcome) ==
    /\ h_call[t].pc = "request"
    /\ h_call' = [h_call EXCEPT ![t] =
                     [pc |-> "delay", last |-> outcome,
                      ret |-> IF outcome = "ok" THEN "data" ELSE "None"]]
    /\ UNCHANGED <<f_permits, notHoldVars>>

\* HoldingsDelayDone that returns without giving the permit back
HoldingsDelayDoneLeaking(t) ==
    /\ h_call[t].pc = "delay"
    /\ h_call' = [h_call EXCEPT ![t].pc = "done"]
    /\ UNCHANGED <<f_permits, notHoldVars>>

\* finally: await asyncio.sleep(0.1) inside the with block, then the block
\* ends and the permit goes back
HoldingsDelayDone(t) ==
    /\ h_call[t].pc = "delay"
    /\ h_call' = [h_call EXCEPT ![t].pc = "done"]
    /\ f_permits' = f_permits + 1
    /\ UNCHANGED notHoldVars

\* the caller has the result
HoldingsReturn(t) ==
    /\ h_call[t].pc = "done"
    /\ h_call' = [h_call EXCEPT ![t] = NoHoldings]
    /\ UNCHANGED <<f_permits, notHoldVars>>

NextFetch ==
    \/ \E t \in Tasks, max_retries \in 0..MaxRetries : FetchCall(t, max_retries)
    \/ \E t \in Tasks : Acquire(t)
    \/ \E t \in Tasks, outcome \in Outcomes : Attempt(t, outcome)
    \/ \E t \in Tasks : BackoffDone(t)
    \/ \E t \in Tasks : DelayDone(t)
    \/ \E t \in Tasks : FetchReturn(t)
    \/ \E t \in HoldingsTasks : HoldingsCall(t)
    \/ \E t \in HoldingsTasks : HoldingsAcquire(t)
    \/ \E t \in HoldingsTasks, outcome \in Outcomes : HoldingsGet(t, outcome)
    \/ \E t \in HoldingsTasks : HoldingsDelayDone(t)
    \/ \E t \in HoldingsTasks : HoldingsReturn(t)

SpecFetch == InitFetch /\ [][NextFetch]_vars

(***************************************************************************)
(* fetch_rank_data and fetch_all_rank_data.  What fetch_with_retry returns *)
(* for a page request is the input here; SpecFetch is its model.           *)
(***************************************************************************)
Min(a, b) == IF a < b THEN a ELSE b

\* position of a rank type in self.rank_types
RECURSIVE IndexIn(_, _, _)
IndexIn(seq, x, i) == IF seq[i] = x THEN i ELSE IndexIn(seq, x, i + 1)

\* the zjzh of the k-th entry the upstream holds in the list of a rank type:
\* neighbouring lists share portfolios
UpstreamId(rank_type, k) == IndexIn(RankTypes, rank_type, 1) + k - 1

\* what fetch_with_retry hands back for one page request:
\*   None    the retries ran out
\*   no_key  a body with result '0' and no 'data' key
\*   page    a body whose 'data' holds n entries, the next n of the list
ResponseKinds == {"None", "no_key", "page"}
Response(kind, rank_type, from, n) ==
    [kind |-> kind,
     data |-> IF kind = "page"
              THEN [i \in 1..n |-> UpstreamId(rank_type, from + i)]
              ELSE <<>>]

\* current_count = min(page_size, target_count - len(all_data))
CurrentCount(loop) == Min(page_size, count - Len(loop.all_data))

\* LoopStep without the break on a page shorter than requested
LoopStepPastShortPage(loop, response) ==
    IF response.kind = "page" /\ Len(response.data) > 0
    THEN [all_data |-> loop.all_data \o response.data,
          current_page |-> loop.current_page + 1,
          asked |-> loop.asked + 1,
          looping |-> Len(loop.all_data \o response.data) < count]
    ELSE [loop EXCEPT !.asked = loop.asked + 1, !.looping = FALSE]

\* one pass of "while len(all_data) < target_count" with the response to its
\* request: extend and go on, or break on a short page, on no data, on None
LoopStep(loop, response) ==
    IF response.kind = "page" /\ Len(response.data) > 0
    THEN [all_data |-> loop.all_data \o response.data,
          current_page |-> loop.current_page + 1,
          asked |-> loop.asked + 1,
          looping |-> /\ ~(Len(response.data) < CurrentCount(loop))
                      /\ Len(loop.all_data \o response.data) < count]
    ELSE [loop EXCEPT !.asked = loop.asked + 1, !.looping = FALSE]

\* RankedData without the cut to target_count
RankedDataUncut(rank_type, all_data) ==
    [i \in 1..Len(all_data) |-> Item(all_data[i], i, rank_type)]

\* after the loop: rank, rank_type on every item, then all_data[:target_count]
RankedData(rank_type, all_data) ==
    SubSeq([i \in 1..Len(all_data) |-> Item(all_data[i], i, rank_type)],
           1, Min(count, Len(all_data)))

\* StoreResult that keeps a key for a fetch that returned nothing
StoreResultAlways(results, rank_type, all_data) ==
    SetKey(results, rank_type, RankedData(rank_type, all_data))

\* data = await task; if data: results[rank_type] = data.  fetch_rank_data
\* returns None (no return statement runs) when all_data is empty
StoreResult(results, rank_type, all_data) ==
    IF all_data # <<>>
    THEN SetKey(results, rank_type, RankedData(rank_type, all_data))
    ELSE results

InitAgg ==
    /\ AggIdle
    /\ DedupeIdle
    /\ FetchIdle
    /\ StoreIdle
    /\ LaterIdle

\* fetch_all_rank_data is called: results = {}, the five coroutines are
\* created, the first is awaited and starts its loop
AggStart ==
    /\ a_pc = "idle"
    /\ a_pc' = "fetching"
    /\ a_idx' = 1
    /\ a_loop' = LoopStart
    /\ a_results' = EmptyMap
    /\ a_last' = NoFetch
    /\ a_got' = {}
    /\ UNCHANGED notAggVars

\* the awaited fetch_rank_data gets the response to its page request.  When
\* its loop ends it returns, fetch_all_rank_data stores what it returned and
\* awaits the next coroutine, or returns after the last.
PageRequest(kind, n) ==
    /\ a_pc = "fetching"
    /\ LET rank_type == RankTypes[a_idx]
           response == Response(kind, rank_type, Len(a_loop.all_data), n)
           loop == LoopStep(a_loop, response)
       IN IF loop.looping
          THEN /\ a_loop' = loop
               /\ UNCHANGED <<a_pc, a_idx, a_results, a_last, a_got>>
          ELSE /\ a_results' = StoreResult(a_results, rank_type, loop.all_data)
               /\ a_last' = [rank_type |-> rank_type,
                             arrived |-> loop.all_data,
                             returned |-> loop.all_data # <<>>,
                             data |-> RankedData(rank_type, loop.all_data)]
               /\ a_got' = IF loop.all_data # <<>>
                           THEN a_got \cup {rank_type} ELSE a_got
               /\ a_loop' = LoopStart
               /\ IF a_idx < Len(RankTypes)
                  THEN a_idx' = a_idx + 1 /\ a_pc' = a_pc
                  ELSE a_idx' = a_idx /\ a_pc' = "done"
    /\ UNCHANGED notAggVars

\* the caller has the map; the crawler is ready for the next call
AggReturn ==
    /\ a_pc = "done"
    /\ a_pc' = "idle"
    /\ a_idx' = 0
    /\ UNCHANGED <<a_loop, a_results, a_last, a_got, notAggVars>>

NextAgg ==
    \/ AggStart
    \/ \E kind \in ResponseKinds, n \in 0..page_size + Overlong : PageRequest(kind, n)
    \/ AggReturn

SpecAgg == InitAgg /\ [][NextAgg]_vars

(***************************************************************************)
(* The snapshot store: save_rank_data, load_latest_rank_data,              *)
(* clean_expired_cache, run_update, get_cached_rank_list_with_auto_update. *)
(* A call runs from its first line to its return in one step.  During a    *)
(* refresh the upstream holds, for every rank type that is not down, a     *)
(* list of list_len entries and serves it page by page.                    *)
(***************************************************************************)
\* CACHE_EXPIRE_HOURS, a global that only the __main__ block assigns
CACHE_EXPIRE_HOURS == 1

\* fetch_rank_data run to its end against such an upstream
RECURSIVE RunLoop(_, _, _, _)
RunLoop(rank_type, loop, down, list_len) ==
    IF ~loop.looping THEN loop
    ELSE LET have == Len(loop.all_data)
             response ==
                 IF down THEN Response("None", rank_type, 0, 0)
                 ELSE Response("page", rank_type, have,
                               Min(CurrentCount(loop), list_len - have))
         IN RunLoop(rank_type, LoopStep(loop, response), down, list_len)

\* for rank_type, task in tasks: data = await task; if data: results[...] = data
RECURSIVE AwaitTasks(_, _, _, _)
AwaitTasks(acc, i, down, list_len) ==
    IF i > Len(RankTypes) THEN acc
    ELSE LET rank_type == RankTypes[i]
             loop == RunLoop(rank_type, LoopStart, rank_type \in down, list_len)
         IN AwaitTasks([results |-> StoreResult(acc.results, rank_type, loop.all_data),
                        requests |-> acc.requests + loop.asked],
                       i + 1, down, list_len)

\* fetch_all_rank_data: the map it returns and the fetch_with_retry calls made
fetch_all_rank_data(down, list_len) ==
    AwaitTasks([results |-> EmptyMap, requests |-> 0], 1, down, list_len)

\* a set that keeps the lists of the old value which the new one lacks
CacheSetMerging(c, key, value) ==
    [k \in DOMAIN c \cup {key} |->
        IF k # key THEN c[k]
        ELSE IF key \in DOMAIN c
             THEN [value EXCEPT !.data = value.data @@ c[key].data]
             ELSE value]

\* self.cache.set(key, value)
CacheSet(c, key, value) ==
    [k \in DOMAIN c \cup {key} |-> IF k = key THEN value ELSE c[k]]

\* del self.cache[key]
CacheDel(c, key) == [k \in DOMAIN c \ {key} |-> c[k]]

\* load_latest_rank_data: self.cache.get("latest_rank_data"), None if absent
HasLatest(c) == LatestKey \in DOMAIN c
load_latest_rank_data(c) == IF HasLatest(c) THEN c[LatestKey] ELSE EmptyDict

\* cache_time of a key whose suffix parses: YYYYMMDD is 00:00 of the day
KeyTime(k) == IF k.kind = "date" THEN k.t * HoursPerDay ELSE k.t

\* the expired keys, were only the YYYYMMDD format parsed
ExpiredKeysNewFormatOnly(c, t, expire_hours) ==
    {k \in DOMAIN c : /\ k.kind \in {"date"}
                      /\ KeyTime(k) < t - expire_hours}

\* the expired keys, were a suffix that does not parse to end the sweep in
\* the outer except, before anything is deleted
ExpiredKeysAbortOnCorrupt(c, t, expire_hours) ==
    IF \E k \in DOMAIN c : k.kind = "corrupt"
    THEN {}
    ELSE {k \in DOMAIN c : /\ k.kind \in {"date", "stamp"}
                           /\ KeyTime(k) < t - expire_hours}

\* the keys clean_expired_cache collects in expired_keys: they start with
\* rank_data_, their suffix parses as one of the two formats, and the time is
\* before the threshold; "latest_rank_data" does not start with rank_data_
ExpiredKeys(c, t, expire_hours) ==
    {k \in DOMAIN c : /\ k.kind \in {"date", "stamp"}
                      /\ KeyTime(k) < t - expire_hours}

\* clean_expired_cache(expire_hours) at time t
clean_expired_cache(c, t, expire_hours) ==
    [k \in DOMAIN c \ ExpiredKeys(c, t, expire_hours) |-> c[k]]

\* MergedData that counts the lists as fetched
MergedDataCountsFetched(data, t, dedup) ==
    Snapshot(t, IF dedup THEN deduplicate_rank_data(data) ELSE data,
             TotalRecords(data))

\* merged_data of save_rank_data: the lists (deduplicated if enabled) and
\* total_records, the sum of their lengths
MergedData(data, t, dedup) ==
    LET deduplicated_data == IF dedup THEN deduplicate_rank_data(data) ELSE data
    IN Snapshot(t, deduplicated_data, TotalRecords(deduplicated_data))

\* save_rank_data(data) at time t: the store it leaves and whether it raised.
\* The old entry of the day is deleted, the day's key and the latest key are
\* set; then clean_expired_cache(CACHE_EXPIRE_HOURS) runs, or, in an imported
\* module, the lookup of that global raises NameError.
save_rank_data(c, data, t, dedup, main) ==
    LET merged_data == MergedData(data, t, dedup)
        cache_key == Key("date", t \div HoursPerDay)
        cleared == IF cache_key \in DOMAIN c THEN CacheDel(c, cache_key) ELSE c
        written == CacheSet(CacheSet(cleared, cache_key, merged_data),
                            LatestKey, merged_data)
    IN IF main
       THEN [cache |-> clean_expired_cache(written, t, CACHE_EXPIRE_HOURS),
             raised |-> FALSE, merged |-> merged_data]
       ELSE [cache |-> written, raised |-> TRUE, merged |-> merged_data]

\* run_update: fetch, save if the map is not empty; an exception of the save
\* is caught and makes the result False
run_update(c, t, dedup, main, down, list_len) ==
    LET got == fetch_all_rank_data(down, list_len)
        rank_data == got.results
        save == save_rank_data(c, rank_data, t, dedup, main)
    IN IF rank_data # EmptyMap
       THEN [cache |-> save.cache, ok |-> ~save.raised,
             fetched |-> rank_data, requests |-> got.requests,
             saved |-> TRUE, save_returned |-> ~save.raised,
             merged |-> save.merged]
       ELSE [cache |-> c, ok |-> FALSE,
             fetched |-> rank_data, requests |-> got.requests,
             saved |-> FALSE, save_returned |-> FALSE, merged |-> EmptyDict]

\* a store left by earlier runs: the entry of day 0, an entry with an old-
\* format key, an entry whose key does not parse, and a latest entry
OldSnapshot ==
    Snapshot(0, SetKey(EmptyMap, "daily", <<Item(UpstreamId("daily", 1), 1, "daily")>>), 1)
\* a snapshot whose lists lost every entry
ZeroSnapshot == Snapshot(0, SetKey(EmptyMap, "daily", <<>>), 0)
LegacyCache(latest) ==
    CacheSet(CacheSet(CacheSet(CacheSet(EmptyCache,
        Key("date", 0), OldSnapshot),
        Key("stamp", HoursPerDay - 2), OldSnapshot),
        CorruptKey, OldSnapshot),
        LatestKey, latest)
InitialCaches == {EmptyCache, LegacyCache(ZeroSnapshot)}

\* the clock starts in the last hour of day 0
StartHour == HoursPerDay - 1

Init ==
    /\ now = StartHour
    /\ cache \in InitialCaches
    /\ s_main \in BOOLEAN
    /\ s_dedup \in BOOLEAN
    /\ s_down \in SUBSET Categories
    /\ s_call = NoOp
    /\ DedupeIdle
    /\ FetchIdle
    /\ AggIdle
    /\ LaterIdle

\* run_update called by main() or by the scheduler's update_job
RunUpdate(list_len) ==
    LET r == run_update(cache, now, s_dedup, s_main, s_down, list_len)
    IN /\ cache' = r.cache
       /\ s_call' = [NoOp EXCEPT !.op = "update", !.ok = r.ok, !.cycles = 1,
                                 !.requests = r.requests, !.fetched = r.fetched,
                                 !.saved = r.saved,
                                 !.save_returned = r.save_returned,
                                 !.merged = r.merged]
       /\ UNCHANGED <<now, s_main, s_dedup, s_down, notStoreVars>>

\* GetOrRefresh that serves the latest snapshot only if it was taken today
GetOrRefreshFreshOnly(list_len) ==
    LET cached_data == load_latest_rank_data(cache)
        r == run_update(cache, now, s_dedup, s_main, s_down, list_len)
    IN /\ IF /\ HasLatest(cache) /\ cached_data.total_records > 0
             /\ cached_data.date = now \div HoursPerDay
          THEN /\ cache' = cache
               /\ s_call' = [NoOp EXCEPT !.op = "get", !.hit = TRUE,
                                         !.ret_kind = "snapshot",
                                         !.ret = cached_data]
          ELSE /\ cache' = r.cache
               /\ s_call' = [NoOp EXCEPT !.op = "get", !.ok = r.ok, !.cycles = 1,
                                 !.requests = r.requests, !.fetched = r.fetched,
                                 !.saved = r.saved,
                                 !.save_returned = r.save_returned,
                                 !.merged = r.merged,
                                 !.ret_kind = IF r.ok /\ HasLatest(r.cache)
                                              THEN "snapshot" ELSE "empty",
                                 !.ret = IF r.ok /\ HasLatest(r.cache)
                                         THEN load_latest_rank_data(r.cache)
                                         ELSE EmptyDict]
       /\ UNCHANGED <<now, s_main, s_dedup, s_down, notStoreVars>>

\* get_cached_rank_list_with_auto_update: the latest snapshot if it is there
\* with total_records > 0; else one run_update and, if that reports success,
\* the latest snapshot as it is then; else {}
GetOrRefresh(list_len) ==
    LET cached_data == load_latest_rank_data(cache)
        r == run_update(cache, now, s_dedup, s_main, s_down, list_len)
    IN /\ IF HasLatest(cache) /\ cached_data.total_records > 0
          THEN /\ cache' = cache
               /\ s_call' = [NoOp EXCEPT !.op = "get", !.hit = TRUE,
                                         !.ret_kind = "snapshot",
                                         !.ret = cached_data]
          ELSE /\ cache' = r.cache
               /\ s_call' = [NoOp EXCEPT !.op = "get", !.ok = r.ok, !.cycles = 1,
                                 !.requests = r.requests, !.fetched = r.fetched,
                                 !.saved = r.saved,
                                 !.save_returned = r.save_returned,
                                 !.merged = r.merged,
                                 !.ret_kind = IF r.ok /\ HasLatest(r.cache)
                                              THEN "snapshot" ELSE "empty",
                                 !.ret = IF r.ok /\ HasLatest(r.cache)
                                         THEN load_latest_rank_data(r.cache)
                                         ELSE EmptyDict]
       /\ UNCHANGED <<now, s_main, s_dedup, s_down, notStoreVars>>

\* clean_expired_cache(expire_hours) called on its own
Sweep(expire_hours) ==
    /\ cache' = clean_expired_cache(cache, now, expire_hours)
    /\ s_call' = [NoOp EXCEPT !.op = "sweep", !.window = expire_hours]
    /\ UNCHANGED <<now, s_main, s_dedup, s_down, notStoreVars>>

\* an hour passes
Tick ==
    /\ now < StartHour + MaxTicks
    /\ now' = now + 1
    /\ s_call' = NoOp
    /\ UNCHANGED <<cache, s_main, s_dedup, s_down, notStoreVars>>

Next ==
    \/ \E list_len \in 1..MaxList : RunUpdate(list_len)
    \/ \E list_len \in 1..MaxList : GetOrRefresh(list_len)
    \/ \E expire_hours \in 1..MaxWindow : Sweep(expire_hours)
    \/ Tick

Spec == Init /\ [][Next]_vars

(***************************************************************************)
(* SpecDedupe: deduplicate_rank_data on every map fetch_all_rank_data can  *)
(* hand it with at most MaxEntries entries: a key only for a list with an  *)
(* entry, ranks 1..n in each list, ids NoId..MaxId in any arrangement.     *)
(***************************************************************************)
\* the map m with one more entry at the end of list c
WithEntry(m, c, id) ==
    LET old == IF c \in DOMAIN m THEN m[c] ELSE <<>>
    IN SetKey(m, c, Append(old, Item(id, Len(old) + 1, c)))

RECURSIVE MapsUpTo(_)
MapsUpTo(n) ==
    IF n = 0 THEN {EmptyMap}
    ELSE LET smaller == MapsUpTo(n - 1)
         IN smaller \cup {WithEntry(m, c, id) :
                            m \in smaller, c \in Categories, id \in {NoId} \cup Ids}

InputMaps == MapsUpTo(MaxEntries)

InitDedupe ==
    /\ dd_data \in InputMaps
    /\ dd_out = NoMap
    /\ dd_pc = "input"
    /\ FetchIdle
    /\ AggIdle
    /\ StoreIdle
    /\ LaterIdle

Deduplicate ==
    /\ dd_pc = "input"
    /\ dd_out' = deduplicate_rank_data(dd_data)
    /\ dd_data' = InputAfterDedupe(dd_data)
    /\ dd_pc' = "done"
    /\ UNCHANGED notDedupeVars

NextDedupe == Deduplicate

SpecDedupe == InitDedupe /\ [][NextDedupe]_vars

(***************************************************************************)
(* Claims about deduplicate_rank_data (checked under SpecDedupe).          *)
(***************************************************************************)
\* the rank types in whose list of map m the portfolio id occurs
ListsWith(m, id) ==
    {c \in DOMAIN m : \E i \in 1..Len(m[c]) : m[c][i].zjzh = id}

\* how many entries of map m, all lists together, carry the portfolio id
Occurrences(m, id) ==
    Cardinality({<<c, i>> \in (DOMAIN m) \X (1..MaxEntries + 1) :
                    i <= Len(m[c]) /\ m[c][i].zjzh = id})

\* the member of a non-empty set of rank types with the highest priority
Best(cs) == CHOOSE c \in cs : \A d \in cs : rank_priority(c) <= rank_priority(d)

\* C1: after deduplicate_rank_data every portfolio id of the input occurs in
\* exactly one list, once, and that list is the highest-priority one (total >
\* yearly > monthly > weekly > daily) of the lists it occurred in before; an
\* id that was in no list is in none after.
C1_DedupeKeepsHighestPriority ==
    dd_pc = "done" =>
        \A id \in Ids :
            LET before == ListsWith(dd_data, id)
            IN IF before = {}
               THEN ListsWith(dd_out, id) = {}
               ELSE /\ ListsWith(dd_out, id) = {Best(before)}
                    /\ Occurrences(dd_out, id) = 1

\* C1 witness: an id that was in the weekly and the total list is, after the
\* call, in the total list only
C1_Witness ==
    /\ dd_pc = "done"
    /\ \E id \in Ids :
          /\ {"weekly", "total"} \subseteq ListsWith(dd_data, id)
          /\ ListsWith(dd_out, id) = {"total"}

(***************************************************************************)
(* Claims about fetch_with_retry (checked under SpecFetch).                *)
(***************************************************************************)
\* C4: a call of fetch_with_retry makes at most max_retries GETs; a GET that
\* comes back 200 with a JSON object whose result is '0' ends the call at once
\* with that body; a call that returned None made exactly max_retries GETs,
\* none of them such a success; a finished call has returned a value (the body
\* or None), whatever made its attempts fail.
C4_FetchBoundedRetries ==
    \A t \in Tasks :
        LET c == f_call[t]
        IN /\ c.gets <= c.max_retries
           /\ c.last = "ok" => c.pc = "done" /\ c.ret = "data"
           /\ c.pc = "done" =>
                \/ c.ret = "data" /\ c.last = "ok"
                \/ c.ret = "None" /\ c.last # "ok" /\ c.gets = c.max_retries

\* C4 witness: a call with max_retries of at least 2 whose every GET failed has
\* returned None, and another call returned the body on a later attempt
C4_Witness ==
    /\ \E t \in Tasks :
          /\ f_call[t].pc = "done" /\ f_call[t].ret = "None"
          /\ f_call[t].max_retries >= 2 /\ f_call[t].gets = f_call[t].max_retries
    /\ \E t \in Tasks :
          /\ f_call[t].pc = "done" /\ f_call[t].ret = "data"
          /\ f_call[t].gets >= 2

(***************************************************************************)
(* Claims about fetch_rank_data and fetch_all_rank_data (under SpecAgg).   *)
(***************************************************************************)
\* C5: whatever the upstream sent (also pages longer than asked for), the
\* list fetch_rank_data returns has at most the target count of entries, and
\* its i-th entry is the i-th entry that arrived, with rank i.
C5_AtMostTargetRankedInArrivalOrder ==
    a_last.returned =>
        /\ Len(a_last.data) <= count
        /\ Len(a_last.data) = Min(count, Len(a_last.arrived))
        /\ \A i \in 1..Len(a_last.data) :
              /\ a_last.data[i].rank = i
              /\ a_last.data[i].zjzh = a_last.arrived[i]
              /\ a_last.data[i].rank_type = a_last.rank_type

\* C5 witness: the upstream sent more entries than the target count and the
\* call returned exactly the target count
C5_Witness ==
    /\ a_last.returned
    /\ Len(a_last.arrived) > count
    /\ Len(a_last.data) = count

\* the keys of results are the rank types whose fetch has produced an entry
KeysAreTheFetchedLists ==
    /\ DOMAIN a_results = a_got
    /\ \A c \in DOMAIN a_results : a_results[c] # <<>>

\* a step of the running call keeps every list results already holds
KeepsEarlierLists ==
    a_pc = "fetching" =>
        \A c \in DOMAIN a_results :
            c \in DOMAIN a_results' /\ a_results'[c] = a_results[c]

\* C6: the keys of the map fetch_all_rank_data builds are exactly the rank
\* types whose fetch produced at least one entry (a fetch that failed or got
\* nothing leaves no key), and no step of the call, a failed fetch included,
\* removes or changes a list that is already in the map.
C6_FailedListAbsentOthersKept ==
    []KeysAreTheFetchedLists /\ [][KeepsEarlierLists]_vars

\* C6 witness: the call has returned a map that has some lists and lacks
\* others, among them one fetched before a list that is present
C6_Witness ==
    /\ a_pc = "done"
    /\ "daily" \notin DOMAIN a_results
    /\ "weekly" \in DOMAIN a_results
    /\ "monthly" \notin DOMAIN a_results
    /\ "total" \in DOMAIN a_results

(***************************************************************************)
(* Claims about the snapshot store (checked under Spec).                   *)
(***************************************************************************)
\* C8: every snapshot in the store, under the latest key or under a dated
\* key, has total_records equal to the sum of the lengths of its lists, with
\* deduplication enabled or disabled.
C8_TotalIsSumOfLists ==
    \A k \in DOMAIN cache : cache[k].total_records = TotalRecords(cache[k].data)

\* C8 witness: a save with deduplication enabled stored a snapshot that has
\* fewer entries than were fetched, under the latest key and under a dated key
C8_Witness ==
    /\ s_dedup /\ s_call.saved
    /\ HasLatest(cache) /\ cache[LatestKey] = s_call.merged
    /\ \E k \in DOMAIN cache : k.kind = "date" /\ cache[k] = s_call.merged
    /\ 0 < s_call.merged.total_records
    /\ s_call.merged.total_records < TotalRecords(s_call.fetched)

\* C2: a get_cached_rank_list_with_auto_update call that found no latest
\* snapshot, or one with total_records 0, ran exactly one refresh (one
\* fetch_all_rank_data, then one save if it fetched anything); if three of
\* the five lists were fetched, the call returned a snapshot, that snapshot is
\* the one under the latest key, it has those three lists and its
\* total_records is the sum of their lengths.
C2_MissRunsOneRefreshAndReturnsIt ==
    (s_call.op = "get" /\ ~s_call.hit) =>
        /\ s_call.cycles = 1
        /\ s_call.saved = (s_call.fetched # EmptyMap)
        /\ Cardinality(DOMAIN s_call.fetched) = 3 =>
              /\ s_call.ret_kind = "snapshot"
              /\ HasLatest(cache) /\ cache[LatestKey] = s_call.ret
              /\ DOMAIN s_call.ret.data = DOMAIN s_call.fetched
              /\ s_call.ret.total_records = TotalRecords(s_call.ret.data)

\* the statement of C2 for a crawler whose module runs as __main__
C2_HoldsAsMain == s_main => C2_MissRunsOneRefreshAndReturnsIt

\* a state C2 is about: a miss whose refresh fetched three of the five lists
C2_Case ==
    /\ s_call.op = "get" /\ ~s_call.hit
    /\ Cardinality(DOMAIN s_call.fetched) = 3

\* a step is a get_cached_rank_list_with_auto_update call made while the
\* latest key holds a snapshot with total_records > 0
HitStep ==
    /\ s_call'.op = "get"
    /\ HasLatest(cache) /\ cache[LatestKey].total_records > 0

\* C3: get_cached_rank_list_with_auto_update called while the latest key
\* holds a snapshot with total_records > 0 returns that snapshot, makes no
\* upstream request and leaves the whole store as it was, however old the
\* snapshot is.
C3_HitReturnsLatestUntouched ==
    [][HitStep =>
         /\ s_call'.hit /\ s_call'.ret_kind = "snapshot"
         /\ s_call'.ret = cache[LatestKey]
         /\ s_call'.requests = 0 /\ s_call'.cycles = 0
         /\ cache' = cache]_vars

\* C3 witness: a call was served a snapshot taken on an earlier day, hours
\* before, from a store that also holds other keys
C3_Witness ==
    /\ s_call.op = "get" /\ s_call.hit
    /\ s_call.ret.date < now \div HoursPerDay
    /\ s_call.ret.timestamp + MaxTicks <= now
    /\ s_call.ret.total_records > 0
    /\ DOMAIN cache # {LatestKey}

\* C7: run_update reports success exactly when fetch_all_rank_data returned
\* a map that is not empty; a get_cached_rank_list_with_auto_update call that
\* had to refresh returns a snapshot when something was fetched and {} when
\* nothing was.
C7_FailureOnlyWhenNothingFetched ==
    /\ s_call.op = "update" => (s_call.ok <=> s_call.fetched # EmptyMap)
    /\ (s_call.op = "get" /\ ~s_call.hit) =>
          IF s_call.fetched # EmptyMap
          THEN s_call.ret_kind = "snapshot" /\ s_call.ret.data # EmptyMap
          ELSE s_call.ret_kind = "empty"

\* the statement of C7 for a crawler whose module runs as __main__
C7_HoldsAsMain == s_main => C7_FailureOnlyWhenNothingFetched

\* today's dated key, rank_data_<YYYYMMDD>
TodayKey == Key("date", now \div HoursPerDay)

\* C9: after save_rank_data has returned, today's dated key and the latest
\* key both hold exactly the snapshot it built (so nothing of an entry saved
\* earlier that day is left).
C9_SaveLeavesSnapshotUnderBothKeys ==
    s_call.save_returned =>
        /\ TodayKey \in DOMAIN cache /\ cache[TodayKey] = s_call.merged
        /\ HasLatest(cache) /\ cache[LatestKey] = s_call.merged

\* what does hold after save_rank_data has returned: the latest key holds
\* the snapshot, and today's key holds it or is gone
C9_LatestHoldsSnapshot ==
    s_call.save_returned =>
        /\ HasLatest(cache) /\ cache[LatestKey] = s_call.merged
        /\ TodayKey \in DOMAIN cache => cache[TodayKey] = s_call.merged

\* the dated and old-format keys left in the store are not older than window
NoneOlderThan(window) ==
    \A k \in DOMAIN cache :
        k.kind \in {"date", "stamp"} => KeyTime(k) >= now - window

\* after a sweep, on its own or at the end of save_rank_data, no entry whose
\* key time is before now - window is left
SweptClean ==
    /\ s_call.op = "sweep" => NoneOlderThan(s_call.window)
    /\ s_call.save_returned => NoneOlderThan(CACHE_EXPIRE_HOURS)

\* a step that swept keeps the latest entry it found
SweepKeepsLatest ==
    (HasLatest(cache) /\ s_call'.op = "sweep") =>
        HasLatest(cache') /\ cache'[LatestKey] = cache[LatestKey]

\* C10: after clean_expired_cache(W) no entry whose key carries a time before
\* now - W is left in the store, and the latest entry, if there was one, is
\* still there, whatever its age.
C10_SweepDropsExpiredKeepsLatest ==
    []SweptClean /\ [][SweepKeepsLatest]_vars

\* C10 witness: a sweep removed the entry of an earlier day and the old-format
\* entry, and left the entry whose key does not parse and a latest entry that
\* is older than the window
C10_Witness ==
    /\ s_call.op = "sweep"
    /\ CorruptKey \in DOMAIN cache
    /\ Key("date", 0) \notin DOMAIN cache
    /\ Key("stamp", HoursPerDay - 2) \notin DOMAIN cache
    /\ HasLatest(cache)
    /\ cache[LatestKey].timestamp < now - s_call.window

(***************************************************************************)
(* get_target_date.  A date is a day number; day d falls on weekday d % 7, *)
(* 0 for Monday as datetime.weekday() has it.  The time of day is counted  *)
(* in minutes.                                                             *)
(***************************************************************************)
\* a Monday: the first day on which get_target_date is called
FirstDay == 14
\* the largest days_back a caller passes
MaxDaysBack == 3

\* weekday < 5
is_a_stock_trading_day(date) == date % 7 < 5

\* get_last_trading_day that tests from_date itself before it steps back
RECURSIVE get_last_trading_day_or_same(_)
get_last_trading_day_or_same(from_date) ==
    IF is_a_stock_trading_day(from_date)
    THEN from_date
    ELSE get_last_trading_day_or_same(from_date - 1)

\* the loop of get_last_trading_day: a day back, until a trading day
RECURSIVE get_last_trading_day(_)
get_last_trading_day(from_date) ==
    LET current_date == from_date - 1
    IN IF is_a_stock_trading_day(current_date)
       THEN current_date
       ELSE get_last_trading_day(current_date)

\* get_target_date without the 08:30 rule
get_target_date_any_time(day, minute, days_back) ==
    LET base_date == day - days_back
    IN IF is_a_stock_trading_day(base_date)
       THEN base_date
       ELSE get_last_trading_day(base_date)

\* get_target_date(days_back) called at minute `minute` of day `day`
get_target_date(day, minute, days_back) ==
    LET base_date == day - days_back
    IN IF minute < 8 * 60 + 30
       THEN get_last_trading_day(base_date)
       ELSE IF is_a_stock_trading_day(base_date)
            THEN base_date
            ELSE get_last_trading_day(base_date)

\* the times of day at which it is called: 00:00, 07:00, 08:29, 08:30, 10:00,
\* 23:59
TimesOfDay == {0, 7 * 60, 8 * 60 + 29, 8 * 60 + 30, 10 * 60, 23 * 60 + 59}

InitDate ==
    /\ td_in \in [day : FirstDay..(FirstDay + 6), minute : TimesOfDay,
                   days_back : 0..MaxDaysBack]
    /\ td_out = NoDay
    /\ DedupeIdle
    /\ FetchIdle
    /\ AggIdle
    /\ StoreIdle
    /\ TcIdle
    /\ SumIdle
    /\ ConcIdle
    /\ HoldIdle
    /\ SchedIdle
    /\ JobIdle

GetTargetDate ==
    /\ td_out = NoDay
    /\ td_out' = get_target_date(td_in.day, td_in.minute, td_in.days_back)
    /\ UNCHANGED <<td_in, notDateVars>>

NextDate == GetTargetDate

SpecDate == InitDate /\ [][NextDate]_vars

\* the name of the weekday of a day
DayName(d) == <<"Mon", "Tue", "Wed", "Thu", "Fri", "Sat", "Sun">>[(d % 7) + 1]
MonToFri == {"Mon", "Tue", "Wed", "Thu", "Fri"}

\* the last Mon-Fri day strictly before day d
LastTradingDayBefore(d) ==
    CHOOSE x \in (d - 7)..(d - 1) :
        /\ DayName(x) \in MonToFri
        /\ \A y \in (x + 1)..(d - 1) : DayName(y) \notin MonToFri

\* C11: get_target_date(days_back) returns, before 08:30, the last Mon-Fri
\* day strictly before now - days_back; from 08:30 on, the day now - days_back
\* itself when that is Mon-Fri and else the last Mon-Fri day before it.  At
\* 07:00 on a Wednesday with days_back 0 that is the Tuesday, at 10:00 on a
\* Monday with days_back 0 that Monday.
C11_TargetDateRule ==
    td_out # NoDay =>
        LET d == td_in.day - td_in.days_back
        IN /\ td_out = IF td_in.minute < 8 * 60 + 30
                       THEN LastTradingDayBefore(d)
                       ELSE IF DayName(d) \in MonToFri
                            THEN d
                            ELSE LastTradingDayBefore(d)
           /\ (DayName(td_in.day) = "Wed" /\ td_in.minute = 7 * 60
                  /\ td_in.days_back = 0)
                 => (td_out = td_in.day - 1 /\ DayName(td_out) = "Tue")
           /\ (DayName(td_in.day) = "Mon" /\ td_in.minute = 10 * 60
                  /\ td_in.days_back = 0)
                 => td_out = td_in.day

\* C11 witness: called at 08:29 on a Tuesday with days_back 1, it went back
\* over the weekend to the Friday
C11_Witness ==
    /\ td_out # NoDay
    /\ DayName(td_in.day) = "Tue" /\ td_in.minute = 8 * 60 + 29
    /\ td_in.days_back = 1
    /\ DayName(td_out) = "Fri" /\ td_out = td_in.day - 4

(***************************************************************************)
(* tc_list.  cached_data is a python dict: the snapshot the read-through   *)
(* returns (keys timestamp, date, total_records, data) or the dict         *)
(* fetch_all_rank_data returns (keys: rank types).                         *)
(***************************************************************************)
\* the records of holding-change lists handled in one tc_list call
MaxRecords == 2
\* max_days_search of tc_list (3 by default), scaled down
MaxDaysSearch == 2

\* a zhuheName that item.get('zhuheName') finds missing or empty
NoName == ""

\* an entry of a ranked list as tc_list reads it
Entry(id, name) == [zjzh |-> id, zhuheName |-> name]

\* d.get(key)
DictGet(d, key) == IF key \in DOMAIN d THEN d[key] ELSE None

\* the truth value of a python dict, a list or None
Truthy(v) == v # None /\ v # EmptyDict /\ DOMAIN v # {}

\* the portfolios of the lists of a snapshot, list after list: the entries
\* that have a zjzh and a zhuheName
RECURSIVE CollectPortfolios(_, _)
CollectPortfolios(data, keys) ==
    IF keys = <<>> THEN <<>>
    ELSE LET kept == SelectSeq(data[Head(keys)],
                               LAMBDA item : /\ item.zjzh # NoId
                                             /\ item.zhuheName # NoName)
         IN [i \in 1..Len(kept) |-> [id |-> kept[i].zjzh,
                                     name |-> kept[i].zhuheName]]
            \o CollectPortfolios(data, Tail(keys))

\* step 1 of tc_list: cached_data, and the calls made to get it
LoadCachedData(use_cache, fresh, store) ==
    IF use_cache
    THEN [use_cache |-> TRUE, cached_data |-> store, fetch_all_calls |-> 0,
          read_through_calls |-> 1]
    ELSE IF ~Truthy(fresh) \/ ~Truthy(DictGet(fresh, "data"))
         THEN [use_cache |-> FALSE, cached_data |-> store,
               fetch_all_calls |-> 1, read_through_calls |-> 1]
         ELSE [use_cache |-> FALSE, cached_data |-> fresh,
               fetch_all_calls |-> 1, read_through_calls |-> 0]

\* the day and the minute at which tc_list runs: a Wednesday, 10:00
TcDay == FirstDay + 2
TcMinute == 10 * 60

\* target_dates of tc_list(days_back = 0)
TargetDates ==
    [i \in 1..MaxDaysSearch |-> get_target_date(TcDay, TcMinute, i - 1)]

\* x in a list
InList(x, list) == \E i \in 1..Len(list) : list[i] = x

\* parse_trading_action that looks at the sell side first
parse_trading_action_sell_first(cwhj_mr, cwhj_mc) ==
    IF cwhj_mc # "" /\ cwhj_mc # "-" THEN "sell"
    ELSE IF cwhj_mr # "" /\ cwhj_mr # "-" THEN "buy"
    ELSE "none"

\* parse_trading_action: "buy" stands for the string it returns for a buy,
\* "sell" for a sell, "none" for None
parse_trading_action(cwhj_mr, cwhj_mc) ==
    IF cwhj_mr # "" /\ cwhj_mr # "-" THEN "buy"
    ELSE IF cwhj_mc # "" /\ cwhj_mc # "-" THEN "sell"
    ELSE "none"

\* the fields a holding-change record may carry; "absent": no such key
Fractions == {"absent", "", "-", "15.5%", "8.2%"}
RecordDays == {TcDay, TcDay - 1, TcDay - 7}
Stocks == {"600000"}
Records == [tzrq : RecordDays, stkMktCode : Stocks,
            cwhj_mr : Fractions \ {"8.2%"}, cwhj_mc : Fractions \ {"15.5%"}]

\* record.get(key, '-')
FractionOf(value) == IF value = "absent" THEN "-" ELSE value

\* RecordEvents without the test of the date
RecordEventsAnyDate(portfolio, record, target_dates) ==
    LET cwhj_mr == FractionOf(record.cwhj_mr)
        cwhj_mc == FractionOf(record.cwhj_mc)
        action == parse_trading_action(cwhj_mr, cwhj_mc)
    IN IF action # "none"
       THEN << [date |-> record.tzrq, id |-> portfolio.id,
                name |-> portfolio.name, stock |-> record.stkMktCode,
                action |-> action,
                fraction |-> IF action = "buy" THEN cwhj_mr ELSE cwhj_mc] >>
       ELSE <<>>

\* what the body of the loop over holdings_data['data'] appends to results
\* for one record of a portfolio
RecordEvents(portfolio, record, target_dates) ==
    LET cwhj_mr == FractionOf(record.cwhj_mr)
        cwhj_mc == FractionOf(record.cwhj_mc)
        action == parse_trading_action(cwhj_mr, cwhj_mc)
    IN IF InList(record.tzrq, target_dates) /\ action # "none"
       THEN << [date |-> record.tzrq, id |-> portfolio.id,
                name |-> portfolio.name, stock |-> record.stkMktCode,
                action |-> action,
                fraction |-> IF action = "buy" THEN cwhj_mr ELSE cwhj_mc] >>
       ELSE <<>>

\* the lists the upstream and the store hold while tc_list runs: portfolio 1
\* is on two lists of the store, one entry has no name
StoreLists == [daily |-> <<Entry(1, "A"), Entry(2, NoName)>>,
               weekly |-> <<Entry(2, "B"), Entry(1, "A")>>]
FreshLists == [daily |-> <<Entry(2, "B")>>]

InitTc ==
    /\ tc_env \in [fresh : {EmptyMap, FreshLists},
                   store : {EmptyDict, Snapshot(1, StoreLists, 4)}]
    /\ tc_pc = "idle"
    /\ tc_load = NoLoad
    /\ tc_portfolios = <<>>
    /\ tc_next = 0
    /\ tc_results = <<>>
    /\ tc_last = NoRecord
    /\ DedupeIdle
    /\ FetchIdle
    /\ AggIdle
    /\ StoreIdle
    /\ DateIdle
    /\ SumIdle
    /\ ConcIdle
    /\ HoldIdle
    /\ SchedIdle
    /\ JobIdle

\* tc_list(use_cache) up to its first await of a holdings task: steps 1 to 3,
\* or the return of [] when there is no list of portfolios
TcList(use_cache) ==
    LET load == LoadCachedData(use_cache, tc_env.fresh, tc_env.store)
        cached_data == load.cached_data
        has_data == Truthy(cached_data) /\ Truthy(DictGet(cached_data, "data"))
    IN /\ tc_pc = "idle"
       /\ tc_load' = load
       /\ tc_results' = <<>>
       /\ IF has_data
          THEN /\ tc_portfolios' =
                     CollectPortfolios(cached_data.data, KeysOf(cached_data.data))
               /\ tc_next' = 1
               /\ tc_pc' = "await"
          ELSE /\ tc_portfolios' = <<>>
               /\ tc_next' = 0
               /\ tc_pc' = "done"
       /\ UNCHANGED <<tc_env, tc_last, notTcVars>>

\* holdings_data = await task: None (fetch_portfolio_holdings met a status
\* other than 200, a 'result' other than '0' or an exception), an exception
\* out of the await itself, a dict without records, or records
HoldingsKinds == {"None", "raised", "no_data", "data"}

\* the await that skips every failed fetch but stops at the first one that
\* raised
TcAwaitAborting(kind) ==
    /\ tc_pc = "await"
    /\ tc_next <= Len(tc_portfolios)
    /\ kind = "data" => tc_last.seen < MaxRecords
    /\ IF kind = "data"
       THEN /\ tc_pc' = "records"
            /\ tc_next' = tc_next
            /\ tc_last' = [tc_last EXCEPT !.in_list = 0]
            /\ tc_results' = tc_results
       ELSE IF kind = "raised"
       THEN /\ tc_pc' = "done"
            /\ tc_next' = tc_next
            /\ tc_last' = [tc_last EXCEPT !.failed = @ \cup {tc_next}]
            /\ tc_results' = <<>>
       ELSE /\ tc_pc' = "await"
            /\ tc_next' = tc_next + 1
            /\ tc_last' = IF kind = "None"
                          THEN [tc_last EXCEPT !.failed = @ \cup {tc_next}]
                          ELSE tc_last
            /\ tc_results' = tc_results
    /\ UNCHANGED <<tc_env, tc_load, tc_portfolios, notTcVars>>

\* one await of the loop over tasks, inside its try block; failed keeps the
\* indices of the portfolios whose fetch failed
TcAwait(kind) ==
    /\ tc_pc = "await"
    /\ tc_next <= Len(tc_portfolios)
    /\ kind = "data" => tc_last.seen < MaxRecords
    /\ IF kind = "data"
       THEN /\ tc_pc' = "records"
            /\ tc_next' = tc_next
            /\ tc_last' = [tc_last EXCEPT !.in_list = 0]
       ELSE /\ tc_pc' = "await"
            /\ tc_next' = tc_next + 1
            /\ tc_last' = IF kind \in {"None", "raised"}
                          THEN [tc_last EXCEPT !.failed = @ \cup {tc_next}]
                          ELSE tc_last
    /\ UNCHANGED <<tc_env, tc_load, tc_portfolios, tc_results, notTcVars>>

\* one pass of the loop over holdings_data['data']
TcRecord(record) ==
    LET events == RecordEvents(tc_portfolios[tc_next], record, TargetDates)
    IN /\ tc_pc = "records"
       /\ tc_last.seen < MaxRecords
       /\ tc_results' = tc_results \o events
       /\ tc_last' = [seen |-> tc_last.seen + 1, in_list |-> tc_last.in_list + 1,
                      record |-> record, events |-> events,
                      failed |-> tc_last.failed]
       /\ UNCHANGED <<tc_env, tc_pc, tc_load, tc_portfolios, tc_next, notTcVars>>

\* the list of records is at its end
TcRecordsEnd ==
    /\ tc_pc = "records"
    /\ tc_last.in_list > 0
    /\ tc_pc' = "await"
    /\ tc_next' = tc_next + 1
    /\ UNCHANGED <<tc_env, tc_load, tc_portfolios, tc_results, tc_last, notTcVars>>

\* return results
TcReturn ==
    /\ tc_pc = "await"
    /\ tc_next > Len(tc_portfolios)
    /\ tc_pc' = "done"
    /\ UNCHANGED <<tc_env, tc_load, tc_portfolios, tc_next, tc_results, tc_last,
                   notTcVars>>

TcStart == \E use_cache \in BOOLEAN : TcList(use_cache)
TcHoldings == \E kind \in HoldingsKinds : TcAwait(kind)
TcHandle == \E record \in Records : TcRecord(record)

NextTc == TcStart \/ TcHoldings \/ TcHandle \/ TcRecordsEnd \/ TcReturn

SpecTc == InitTc /\ [][NextTc]_vars

\* a fraction field that is there and is not the sentinel "-"
Populated(value) == value \notin {"absent", "", "-"}

\* C12: a holding-change record dated on the day of the call is classified
\* with exactly one outcome: one buy event when cwhj_mr is populated,
\* whatever cwhj_mc is; else one sell event when cwhj_mc is populated; else no
\* event.  ("15.5%", "-") is a buy, ("-", "8.2%") a sell, ("-", "-") nothing.
C12_BuyFirstThenSellElseNothing ==
    (tc_last.record # None /\ tc_last.record.tzrq = TcDay) =>
        LET mr == tc_last.record.cwhj_mr
            mc == tc_last.record.cwhj_mc
            events == tc_last.events
        IN /\ Len(events) <= 1
           /\ Populated(mr) =>
                /\ Len(events) = 1 /\ events[1].action = "buy"
                /\ events[1].fraction = mr
           /\ (~Populated(mr) /\ Populated(mc)) =>
                /\ Len(events) = 1 /\ events[1].action = "sell"
                /\ events[1].fraction = mc
           /\ (~Populated(mr) /\ ~Populated(mc)) => events = <<>>
           /\ (mr = "15.5%" /\ mc = "-") =>
                (Len(events) = 1 /\ events[1].action = "buy")
           /\ (mr = "-" /\ mc = "8.2%") =>
                (Len(events) = 1 /\ events[1].action = "sell")
           /\ (mr = "-" /\ mc = "-") => events = <<>>

\* C12 witness: a record with both fractions populated gave one buy event and
\* nothing else
C12_Witness ==
    /\ tc_last.record # None /\ tc_last.record.tzrq = TcDay
    /\ tc_last.record.cwhj_mr = "15.5%" /\ tc_last.record.cwhj_mc = "8.2%"
    /\ Len(tc_last.events) = 1 /\ tc_last.events[1].action = "buy"
    /\ tc_results # <<>>
    /\ tc_results[Len(tc_results)] = tc_last.events[1]

\* C13: tc_list(use_cache = False) takes its portfolios from the lists
\* fetch_all_rank_data returned whenever they are not empty, without calling
\* get_cached_rank_list_with_auto_update; it calls that only when
\* fetch_all_rank_data returned nothing.
C13_FreshListsFirst ==
    (tc_pc # "idle" /\ ~tc_load.use_cache) =>
        /\ tc_load.fetch_all_calls = 1
        /\ IF tc_env.fresh # EmptyMap
           THEN /\ tc_load.read_through_calls = 0
                /\ tc_portfolios =
                       CollectPortfolios(tc_env.fresh, KeysOf(tc_env.fresh))
           ELSE tc_load.read_through_calls = 1

\* what tc_list(use_cache = False) does: it calls fetch_all_rank_data, then
\* always the read-through, whose snapshot gives the portfolios
C13_AlwaysReadsThrough ==
    (tc_pc # "idle" /\ ~tc_load.use_cache) =>
        /\ tc_load.fetch_all_calls = 1
        /\ tc_load.read_through_calls = 1
        /\ tc_load.cached_data = tc_env.store

\* C17: deduplicate_rank_data applied to its own output returns that output:
\* the same entries in each list, in the same order, with the same ranks.
C17_DedupeIdempotent ==
    dd_pc = "done" => deduplicate_rank_data(dd_out) = dd_out

\* C17 witness: the first run removed an entry and left two lists with
\* entries, or one list with two
C17_Witness ==
    /\ dd_pc = "done"
    /\ TotalRecords(dd_out) < TotalRecords(dd_data)
    /\ TotalRecords(dd_out) >= 2
    /\ deduplicate_rank_data(dd_out) = dd_out

\* C18: deduplicate_rank_data leaves its argument as it was: the same lists
\* with the same entries, every field of every entry, rank included,
\* unchanged.
C18_DedupeLeavesInputAlone ==
    [][(dd_pc = "input" /\ dd_pc' = "done") => dd_data' = dd_data]_vars

\* what the call does leave alone in its argument: the keys, the length of
\* each list, and every field of every entry but rank
C18_OnlyRanksChange ==
    [][(dd_pc = "input" /\ dd_pc' = "done") =>
         /\ DOMAIN dd_data' = DOMAIN dd_data
         /\ \A c \in DOMAIN dd_data :
              /\ Len(dd_data'[c]) = Len(dd_data[c])
              /\ \A i \in 1..Len(dd_data[c]) :
                   [dd_data'[c][i] EXCEPT !.rank = 0]
                       = [dd_data[c][i] EXCEPT !.rank = 0]]_vars

(***************************************************************************)
(* get_stock_summary.  A display string is kept as the text before its     *)
(* first '<span' and the span elements that follow.                        *)
(***************************************************************************)
\* the records tc_list hands to get_stock_summary
MaxEvents == 3

\* the 'name' of a rank type in self.rank_types (written in Latin letters)
RankName(rank_type) ==
    CASE rank_type = "daily"   -> "ribang"
      [] rank_type = "weekly"  -> "zhoubang"
      [] rank_type = "monthly" -> "yuebang"
      [] rank_type = "yearly"  -> "nianbang"
      [] rank_type = "total"   -> "zongbang"
      [] OTHER                 -> rank_type

\* f"{rank_name}{idx}"
RankText(rank_name, idx) == [name |-> rank_name, idx |-> idx]

\* what one list adds to portfolio_ranks[portfolio_name]: enumerate counts
\* every entry of the list, an entry without zjzh or zhuheName adds nothing
RanksInList(list, rank_type, portfolio_name) ==
    LET at == SelectSeq([i \in 1..Len(list) |-> i],
                        LAMBDA i : /\ list[i].zjzh # NoId
                                   /\ list[i].zhuheName # NoName
                                   /\ list[i].zhuheName = portfolio_name)
    IN [k \in 1..Len(at) |-> RankText(RankName(rank_type), at[k])]

\* portfolio_ranks.get(portfolio_name, [])
RECURSIVE PortfolioRanks(_, _, _)
PortfolioRanks(lists, keys, portfolio_name) ==
    IF keys = <<>> THEN <<>>
    ELSE RanksInList(lists[Head(keys)], Head(keys), portfolio_name)
         \o PortfolioRanks(lists, Tail(keys), portfolio_name)

\* the rank_type the chain of 'in' tests finds in a rank text, "" if none
TagType(rank) ==
    IF rank.name \in {"ribang", "zhoubang", "yuebang", "nianbang", "zongbang"}
    THEN rank.name
    ELSE ""

\* portfolio_display: nothing before the first '<span', the combo-name span,
\* then one rank-tag span for each rank text whose type was found
PortfolioDisplay(portfolio_id, portfolio_name, portfolio_rank_info) ==
    LET tagged == SelectSeq(portfolio_rank_info, LAMBDA rank : TagType(rank) # "")
    IN [lead |-> "",
        spans |-> << [cls |-> "combo-name", id |-> portfolio_id,
                      name |-> portfolio_name, text |-> portfolio_name] >>
                  \o [i \in 1..Len(tagged) |->
                        [cls |-> "rank-tag", type |-> TagType(tagged[i]),
                         text |-> tagged[i]]]]

\* name.split('<span')[0]
SplitHead(display) == display.lead

\* portfolio_name not in [name.split('<span')[0] for name in combos]
NotListed(portfolio_name, combos) ==
    \A i \in 1..Len(combos) : SplitHead(combos[i]) # portfolio_name

\* the index of stock_key among the keys of stock_summary, 0 when absent
StockIndex(stock_summary, stock_code) ==
    IF \E i \in 1..Len(stock_summary) : stock_summary[i].stock = stock_code
    THEN CHOOSE i \in 1..Len(stock_summary) : stock_summary[i].stock = stock_code
    ELSE 0

\* the body of the loop over records
AddRecord(stock_summary, record, lists) ==
    LET with_key == IF StockIndex(stock_summary, record.stock) = 0
                    THEN Append(stock_summary,
                                [stock |-> record.stock, buy |-> <<>>, sell |-> <<>>])
                    ELSE stock_summary
        k == StockIndex(with_key, record.stock)
        portfolio_display ==
            PortfolioDisplay(record.id, record.name,
                             PortfolioRanks(lists, KeysOf(lists), record.name))
    IN IF record.action = "buy" /\ NotListed(record.name, with_key[k].buy)
       THEN [with_key EXCEPT ![k].buy = Append(@, portfolio_display)]
       ELSE IF record.action = "sell" /\ NotListed(record.name, with_key[k].sell)
       THEN [with_key EXCEPT ![k].sell = Append(@, portfolio_display)]
       ELSE with_key

RECURSIVE StockSummary(_, _)
StockSummary(records, lists) ==
    IF records = <<>> THEN <<>>
    ELSE AddRecord(StockSummary(SubSeq(records, 1, Len(records) - 1), lists),
                   records[Len(records)], lists)

\* _parse_combo_html: id, name and display_name of the combo-name span and
\* the type and text of every rank-tag span
parse_combo_html(combo_html) ==
    LET combo == SelectSeq(combo_html.spans, LAMBDA e : e.cls = "combo-name")
        tags == SelectSeq(combo_html.spans, LAMBDA e : e.cls = "rank-tag")
    IN IF combo = <<>> THEN None
       ELSE [id |-> combo[1].id, name |-> combo[1].name,
             display_name |-> combo[1].text,
             ranks |-> [i \in 1..Len(tags) |->
                          [type |-> tags[i].type, text |-> tags[i].text]]]

ParseAll(combos) ==
    LET parsed == [i \in 1..Len(combos) |-> parse_combo_html(combos[i])]
    IN SelectSeq(parsed, LAMBDA combo_info : combo_info # None)

\* stock_data as the second loop leaves it
StockData(entry) ==
    LET buy_combos == ParseAll(entry.buy)
        sell_combos == ParseAll(entry.sell)
    IN [stock |-> entry.stock, buy |-> buy_combos, sell |-> sell_combos,
        buy_count |-> Len(buy_combos), sell_count |-> Len(sell_combos)]

\* a sort by buy_count that puts the smaller count first
RECURSIVE SortByBuyCountAscending(_)
SortByBuyCountAscending(result) ==
    IF result = <<>> THEN <<>>
    ELSE LET rest == SortByBuyCountAscending(SubSeq(result, 1, Len(result) - 1))
             x == result[Len(result)]
         IN SelectSeq(rest, LAMBDA y : y.buy_count <= x.buy_count) \o <<x>>
            \o SelectSeq(rest, LAMBDA y : y.buy_count > x.buy_count)

\* result.sort(key=buy_count, reverse=True): stable, the larger count first
RECURSIVE SortByBuyCount(_)
SortByBuyCount(result) ==
    IF result = <<>> THEN <<>>
    ELSE LET rest == SortByBuyCount(SubSeq(result, 1, Len(result) - 1))
             x == result[Len(result)]
         IN SelectSeq(rest, LAMBDA y : y.buy_count >= x.buy_count) \o <<x>>
            \o SelectSeq(rest, LAMBDA y : y.buy_count < x.buy_count)

\* get_stock_summary, given the records tc_list returned and the lists of
\* the snapshot the read-through returned
get_stock_summary(records, lists) ==
    LET stock_summary == StockSummary(records, lists)
    IN SortByBuyCount([i \in 1..Len(stock_summary) |-> StockData(stock_summary[i])])

\* the lists of the snapshot: portfolio 2 is on two lists; in SharedName
\* portfolios 1 and 3 carry the same zhuheName
UniqueNames == [daily |-> <<Entry(1, "A"), Entry(2, "B")>>,
                total |-> <<Entry(2, "B")>>]
SharedName == [daily |-> <<Entry(1, "A"), Entry(2, "B")>>,
               weekly |-> <<Entry(3, "A")>>,
               total |-> <<Entry(2, "B")>>]
SummaryStocks == {"600000", "000001"}

\* the records tc_list can return for the portfolios of these lists
EventsOf(lists) ==
    LET portfolios == CollectPortfolios(lists, KeysOf(lists))
    IN {[date |-> TcDay, id |-> portfolios[i].id, name |-> portfolios[i].name,
         stock |-> stock, action |-> action,
         fraction |-> IF action = "buy" THEN "15.5%" ELSE "8.2%"] :
            i \in 1..Len(portfolios), stock \in SummaryStocks,
            action \in {"buy", "sell"}}

SeqsUpTo(S, n) == UNION {[1..k -> S] : k \in 0..n}

InitSummary ==
    /\ \E lists \in {UniqueNames, SharedName} :
         \E records \in SeqsUpTo(EventsOf(lists), MaxEvents) :
            ss_in = [records |-> records, lists |-> lists]
    /\ ss_out = NoSummary
    /\ DedupeIdle
    /\ FetchIdle
    /\ AggIdle
    /\ StoreIdle
    /\ DateIdle
    /\ TcIdle
    /\ ConcIdle
    /\ HoldIdle
    /\ SchedIdle
    /\ JobIdle

Summarize ==
    /\ ~ss_out.returned
    /\ ss_out' = [returned |-> TRUE,
                  result |-> get_stock_summary(ss_in.records, ss_in.lists)]
    /\ UNCHANGED <<ss_in, notSumVars>>

NextSummary == Summarize

SpecSummary == InitSummary /\ [][NextSummary]_vars

\* the ids of the combos of one side of a stock
IdsOf(combos) == {combos[i].id : i \in 1..Len(combos)}

\* the portfolios that have a record of this action for this stock
PortfoliosWith(records, stock, action) ==
    {records[i].id : i \in {j \in 1..Len(records) :
                               /\ records[j].stock = stock
                               /\ records[j].action = action}}

\* C14: in the list get_stock_summary returns, a portfolio is at most once
\* among the buy combos of a stock and at most once among its sell combos,
\* however many records it has there, and the two counts count each
\* portfolio once.
C14_PortfolioOncePerSide ==
    ss_out.returned =>
        \A k \in 1..Len(ss_out.result) :
            LET d == ss_out.result[k]
            IN /\ Cardinality(IdsOf(d.buy)) = Len(d.buy)
               /\ Cardinality(IdsOf(d.sell)) = Len(d.sell)
               /\ d.buy_count =
                      Cardinality(PortfoliosWith(ss_in.records, d.stock, "buy"))
               /\ d.sell_count =
                      Cardinality(PortfoliosWith(ss_in.records, d.stock, "sell"))

\* what get_stock_summary does: every record adds a combo, so the counts are
\* the numbers of records of the stock on each side
C14_EveryRecordCounted ==
    ss_out.returned =>
        \A k \in 1..Len(ss_out.result) :
            LET d == ss_out.result[k]
                n(action) == Cardinality({j \in 1..Len(ss_in.records) :
                                 /\ ss_in.records[j].stock = d.stock
                                 /\ ss_in.records[j].action = action})
            IN d.buy_count = n("buy") /\ d.sell_count = n("sell")

\* the index of the first record of a stock
FirstEvent(records, stock) ==
    CHOOSE i \in 1..Len(records) :
        /\ records[i].stock = stock
        /\ \A j \in 1..(i - 1) : records[j].stock # stock

\* C15: the list get_stock_summary returns is in descending order of
\* buy_count, and stocks with the same buy_count are in the order in which
\* their first records came.
C15_SortedByBuyCountStable ==
    ss_out.returned =>
        \A i, j \in 1..Len(ss_out.result) :
            i < j =>
                LET a == ss_out.result[i]
                    b == ss_out.result[j]
                IN /\ a.buy_count >= b.buy_count
                   /\ a.buy_count = b.buy_count =>
                        FirstEvent(ss_in.records, a.stock)
                            < FirstEvent(ss_in.records, b.stock)

\* C15 witness: three records of two stocks; the stock met second has more
\* buy combos and comes first
C15_Witness ==
    /\ ss_out.returned
    /\ Len(ss_out.result) = 2
    /\ ss_out.result[1].buy_count > ss_out.result[2].buy_count
    /\ ss_out.result[2].buy_count > 0
    /\ FirstEvent(ss_in.records, ss_out.result[2].stock) = 1

\* the rank types on whose list the portfolio id is, with its place there
PlacesOf(lists, id) ==
    UNION {{<<c, i>> : i \in {j \in 1..Len(lists[c]) : lists[c][j].zjzh = id}} :
              c \in DOMAIN lists}

\* the badges of a combo are those of the places of its id
BadgesMatchId(combo, lists) ==
    /\ Len(combo.ranks) = Cardinality(PlacesOf(lists, combo.id))
    /\ \A p \in PlacesOf(lists, combo.id) :
         \E n \in 1..Len(combo.ranks) :
            /\ combo.ranks[n].type = RankName(p[1])
            /\ combo.ranks[n].text = RankText(RankName(p[1]), p[2])

\* C16: in the list get_stock_summary returns, the ranks of a combo are one
\* badge for each list of the snapshot on which the portfolio with that id
\* is, carrying that list's name and the portfolio's rank there, and no
\* badge of a list on which it is not.
C16_BadgePerListOfTheId ==
    ss_out.returned =>
        \A k \in 1..Len(ss_out.result) :
            LET d == ss_out.result[k]
            IN /\ \A n \in 1..Len(d.buy) : BadgesMatchId(d.buy[n], ss_in.lists)
               /\ \A n \in 1..Len(d.sell) : BadgesMatchId(d.sell[n], ss_in.lists)

\* the statement of C16 for a snapshot in which no two portfolios share a
\* zhuheName
C16_HoldsForUniqueNames ==
    ss_in.lists = UniqueNames => C16_BadgePerListOfTheId

\* the fetch_rank_data coroutine of a rank type has begun to run: it is the
\* one fetch_all_rank_data awaits, or it was awaited before
Started(rank_type) ==
    a_pc \in {"fetching", "done"} /\ IndexIn(RankTypes, rank_type, 1) <= a_idx

\* the fetch_rank_data coroutines that have begun and have not returned
Running == IF a_pc = "fetching" THEN {RankTypes[a_idx]} ELSE {}

\* C20: fetch_all_rank_data runs its five fetch_rank_data coroutines
\* concurrently: while one of them is waiting for a page, the others have
\* begun too, none waits for another's fetch to finish.
C20_FetchesRunTogether ==
    a_pc = "fetching" => \A c \in Categories : Started(c)

\* what fetch_all_rank_data does: one coroutine runs at a time, in the order
\* of self.rank_types, and the next begins when the one before has returned
C20_OneAtATime ==
    /\ Cardinality(Running) <= 1
    /\ a_pc = "fetching" =>
         \A c \in Categories :
            (Started(c) /\ c \notin Running) =>
                (c \in DOMAIN a_results \/ c \notin a_got)

(***************************************************************************)
(* Refresh cycles of two crawlers on one cache directory.  The scheduler's *)
(* update_job runs run_update in a thread of the process that runs         *)
(* rank_crawler.py as __main__; the reader is a                            *)
(* get_cached_rank_list_with_auto_update call of another crawler object.   *)
(* Every operation on the DiskCache is one step.                           *)
(***************************************************************************)
\* the refresh cycles that begin
MaxCycles == 3

\* the rank types the upstream may answer for during these cycles
ConcCategories == {"daily", "total"}

\* what fetch_all_rank_data of cycle n returns when the upstream answers for
\* the rank types in got: the lists of cycle n hold portfolio n
CycleData(n, got) == [c \in got |-> <<Item(n, 1, c)>>]

\* the hour at which the cycles run
ConcHour == StartHour
ConcDayKey == Key("date", ConcHour \div HoursPerDay)

\* the caller's module runs as __main__
RunsAsMain(p) == p = "scheduler" \/ cv_cfg.reader_main

InitConc ==
    /\ cv_cfg \in [dedup : BOOLEAN, reader_main : BOOLEAN]
    /\ cv_cache = EmptyCache
    /\ cv_proc = [p \in Callers |-> NoCycle]
    /\ cv_produced = <<>>
    /\ DedupeIdle
    /\ FetchIdle
    /\ AggIdle
    /\ StoreIdle
    /\ DateIdle
    /\ TcIdle
    /\ SumIdle
    /\ HoldIdle
    /\ SchedIdle
    /\ JobIdle

\* run_update up to the first cache operation of save_rank_data: the lists
\* are fetched and merged_data is built; with no list it returns False.  The
\* reader comes here only when it found no latest snapshot with records.
CycleFetch(p, got) ==
    LET n == Len(cv_produced) + 1
        rank_data == CycleData(n, got)
        merged_data == MergedData(rank_data, ConcHour, cv_cfg.dedup)
    IN /\ cv_proc[p].pc = "idle"
       /\ Len(cv_produced) < MaxCycles
       /\ p = "reader" =>
            ~(HasLatest(cv_cache) /\ cv_cache[LatestKey].total_records > 0)
       /\ IF rank_data = EmptyMap
          THEN /\ cv_proc' = [cv_proc EXCEPT ![p] =
                     [pc |-> "done", cycle |-> n, fetched |-> rank_data,
                      merged |-> EmptyDict, ok |-> FALSE]]
               /\ cv_produced' = Append(cv_produced, EmptyDict)
          ELSE /\ cv_proc' = [cv_proc EXCEPT ![p] =
                     [pc |-> "check", cycle |-> n, fetched |-> rank_data,
                      merged |-> merged_data, ok |-> FALSE]]
               /\ cv_produced' = Append(cv_produced, merged_data)
       /\ UNCHANGED <<cv_cfg, cv_cache, notConcVars>>

\* if cache_key in self.cache
CycleCheck(p) ==
    /\ cv_proc[p].pc = "check"
    /\ cv_proc' = [cv_proc EXCEPT ![p].pc =
                      IF ConcDayKey \in DOMAIN cv_cache THEN "del" ELSE "set_day"]
    /\ UNCHANGED <<cv_cfg, cv_cache, cv_produced, notConcVars>>

\* del self.cache[cache_key]: KeyError when the other caller has deleted the
\* key in between; run_update catches it and returns False
CycleDel(p) ==
    /\ cv_proc[p].pc = "del"
    /\ IF ConcDayKey \in DOMAIN cv_cache
       THEN /\ cv_cache' = CacheDel(cv_cache, ConcDayKey)
            /\ cv_proc' = [cv_proc EXCEPT ![p].pc = "set_day"]
       ELSE /\ cv_cache' = cv_cache
            /\ cv_proc' = [cv_proc EXCEPT ![p].pc = "done"]
    /\ UNCHANGED <<cv_cfg, cv_produced, notConcVars>>

\* self.cache.set(cache_key, merged_data)
CycleSetDay(p) ==
    /\ cv_proc[p].pc = "set_day"
    /\ cv_cache' = CacheSet(cv_cache, ConcDayKey, cv_proc[p].merged)
    /\ cv_proc' = [cv_proc EXCEPT ![p].pc = "set_latest"]
    /\ UNCHANGED <<cv_cfg, cv_produced, notConcVars>>

\* self.cache.set("latest_rank_data", merged_data)
CycleSetLatest(p) ==
    /\ cv_proc[p].pc = "set_latest"
    /\ cv_cache' = CacheSet(cv_cache, LatestKey, cv_proc[p].merged)
    /\ cv_proc' = [cv_proc EXCEPT ![p].pc = "sweep"]
    /\ UNCHANGED <<cv_cfg, cv_produced, notConcVars>>

\* self.clean_expired_cache(CACHE_EXPIRE_HOURS), then return True; in an
\* imported module the global is missing and run_update returns False
CycleSweep(p) ==
    /\ cv_proc[p].pc = "sweep"
    /\ IF RunsAsMain(p)
       THEN /\ cv_cache' = clean_expired_cache(cv_cache, ConcHour, CACHE_EXPIRE_HOURS)
            /\ cv_proc' = [cv_proc EXCEPT ![p].pc = "done", ![p].ok = TRUE]
       ELSE /\ cv_cache' = cv_cache
            /\ cv_proc' = [cv_proc EXCEPT ![p].pc = "done"]
    /\ UNCHANGED <<cv_cfg, cv_produced, notConcVars>>

\* run_update has returned to its caller
CycleReturn(p) ==
    /\ cv_proc[p].pc = "done"
    /\ cv_proc' = [cv_proc EXCEPT ![p] = NoCycle]
    /\ UNCHANGED <<cv_cfg, cv_cache, cv_produced, notConcVars>>

Fetching == \E p \in Callers, got \in SUBSET ConcCategories : CycleFetch(p, got)
Checking == \E p \in Callers : CycleCheck(p)
Deleting == \E p \in Callers : CycleDel(p)
SettingDay == \E p \in Callers : CycleSetDay(p)
SettingLatest == \E p \in Callers : CycleSetLatest(p)
Sweeping == \E p \in Callers : CycleSweep(p)
Returning == \E p \in Callers : CycleReturn(p)

NextConc ==
    \/ Fetching \/ Checking \/ Deleting \/ SettingDay \/ SettingLatest
    \/ Sweeping \/ Returning

SpecConc == InitConc /\ [][NextConc]_vars

\* the latest key holds the merged_data one cycle built
LatestIsOfOneCycle ==
    HasLatest(cv_cache) =>
        \E n \in 1..Len(cv_produced) :
            /\ cv_produced[n] # EmptyDict
            /\ cv_cache[LatestKey] = cv_produced[n]
            /\ \A c \in DOMAIN cv_cache[LatestKey].data :
                 \A i \in 1..Len(cv_cache[LatestKey].data[c]) :
                    cv_cache[LatestKey].data[c][i].zjzh = n

\* a step of a caller whose cycle fetched no list leaves the store alone
EmptyCycleWritesNothing ==
    \A p \in Callers :
        (cv_proc'[p] # cv_proc[p] /\ cv_proc'[p].cycle # 0
           /\ cv_proc'[p].fetched = EmptyMap)
            => /\ cv_cache' = cv_cache
               /\ cv_proc'[p].pc = "done" /\ ~cv_proc'[p].ok

\* C19: however the refresh cycles of the scheduler and of a read-through
\* caller interleave, the value under the latest key is absent or is the
\* snapshot one single cycle built, never lists of two cycles; and a cycle
\* that fetched no list leaves the latest key as it was.
C19_LatestIsWholeSnapshot ==
    []LatestIsOfOneCycle /\ [][EmptyCycleWritesNothing]_vars

\* C19 witness: two cycles that fetched different lists are both inside
\* save_rank_data; the later one has written the day's key and not yet the
\* latest key, which holds the snapshot of the earlier one
C19_Witness ==
    /\ \A p \in Callers : cv_proc[p].pc \in {"set_latest", "sweep"}
    /\ \E p, q \in Callers :
         /\ cv_proc[p].cycle < cv_proc[q].cycle
         /\ DOMAIN cv_proc[p].fetched # DOMAIN cv_proc[q].fetched
         /\ cv_proc[q].pc = "set_latest"
         /\ HasLatest(cv_cache) /\ cv_cache[LatestKey] = cv_proc[p].merged
         /\ ConcDayKey \in DOMAIN cv_cache
         /\ cv_cache[ConcDayKey] = cv_proc[q].merged

(***************************************************************************)
(* Claims about the semaphore (checked under SpecFetch).                   *)
(***************************************************************************)
\* the GETs that have been sent and have not come back
InFlight ==
    Cardinality({t \in Tasks : f_call[t].pc = "request"})
    + Cardinality({t \in HoldingsTasks : h_call[t].pc = "request"})

\* the coroutines waiting in "async with self.semaphore"
Waiting ==
    {t \in Tasks : f_call[t].pc = "acquire"}
    \cup {t \in HoldingsTasks : h_call[t].pc = "acquire"}

\* C21: at every moment the GETs in flight from one crawler, those of
\* fetch_with_retry (rank pages, portfolio details) and those of
\* fetch_portfolio_holdings together, are at most max_concurrent_requests.
C21_InFlightWithinPool == InFlight <= f_size

\* C21 witness: the pool is used up by a rank-page GET and a holding-change
\* GET in flight together while a third coroutine waits for a permit
C21_Witness ==
    /\ InFlight = f_size
    /\ \E t \in Tasks : f_call[t].pc = "request"
    /\ \E t \in HoldingsTasks : h_call[t].pc = "request"
    /\ Waiting # {}

\* the fetch_with_retry calls between their first attempt and their end
InLoop == {t \in Tasks : f_call[t].pc \in {"request", "backoff", "delay"}}

\* the fetch_portfolio_holdings calls inside their with block
InBlock == {t \in HoldingsTasks : h_call[t].pc \in {"request", "delay"}}

\* every permit that is out is with one call that is inside its with block
PermitsAccounted == f_permits + Cardinality(InLoop) + Cardinality(InBlock) = f_size

\* what one step does to the permit of a fetch_with_retry call
OnePermitPerCall(t) ==
    LET pc == f_call[t].pc
        pc2 == f_call'[t].pc
    IN /\ (pc = "acquire" /\ pc2 # "acquire") =>
            /\ f_permits' = f_permits - 1
            /\ f_call[t].gets = 0
       /\ (t \in InLoop /\ pc2 # "done") =>
            /\ pc2 \in {"request", "backoff", "delay"}
            /\ f_call'[t] # f_call[t] => f_permits' = f_permits
       /\ (pc # "done" /\ pc2 = "done") =>
            /\ t \in InLoop
            /\ f_permits' = f_permits + 1

\* C27: a fetch_with_retry call takes one permit before its first GET, keeps
\* that permit through every attempt and backoff sleep (no step between two
\* attempts gives it back or takes another), and returns it exactly once, in
\* the step that ends the call.
C27_OnePermitForTheWholeLoop ==
    []PermitsAccounted /\ [][\A t \in Tasks : OnePermitPerCall(t)]_vars

\* C27 witness: a call in its third attempt, after a backoff sleep, still has
\* the only permit, and another call has been waiting for it
C27_Witness ==
    /\ f_size = 1 /\ f_permits = 0
    /\ \E t \in Tasks :
          /\ f_call[t].pc = "request" /\ f_call[t].attempt >= 2
          /\ f_call[t].slept
    /\ \E t \in Tasks : f_call[t].pc = "acquire"

\* C28 (as stated): every fetch call ends by the 0.1 s sleep, and the permit
\* is no longer held during that sleep (the step that ends the sleep returns
\* no permit).
C28_DelayAfterRelease ==
    [][/\ \A t \in Tasks :
            (f_call[t].pc # "done" /\ f_call'[t].pc = "done") =>
                f_call[t].pc = "delay" /\ f_permits' = f_permits
       /\ \A t \in HoldingsTasks :
            (h_call[t].pc # "done" /\ h_call'[t].pc = "done") =>
                h_call[t].pc = "delay" /\ f_permits' = f_permits]_vars

\* C28 (what the code does): fetch_with_retry sleeps the 0.1 s only when it
\* returns None, fetch_portfolio_holdings always; the permit is held during
\* the sleep and goes back when the sleep is over.
C28_DelayUnderPermit ==
    [][/\ \A t \in Tasks :
            (f_call[t].pc # "done" /\ f_call'[t].pc = "done") =>
                /\ f_permits' = f_permits + 1
                /\ (f_call[t].pc = "delay") = (f_call'[t].ret = "None")
       /\ \A t \in HoldingsTasks :
            (h_call[t].pc # "done" /\ h_call'[t].pc = "done") =>
                h_call[t].pc = "delay" /\ f_permits' = f_permits + 1]_vars

\* C29 (as stated): an attempt that is not the first one of its call comes
\* after a 1 s backoff sleep, whatever made the attempt before it fail.
C29_BackoffBeforeEveryRetry ==
    \A t \in Tasks :
        (f_call[t].pc = "request" /\ f_call[t].attempt > 0) => f_call[t].slept

\* C29 (what the code does): the sleep comes only after a failure that
\* reached "except Exception"; after a status other than 200, a 'result' other
\* than '0' or a body that is not JSON the next GET follows at once.
C29_BackoffOnlyAfterRaised ==
    \A t \in Tasks :
        (f_call[t].pc = "request" /\ f_call[t].attempt > 0) =>
            (f_call[t].slept <=> f_call[t].last \in Raised)

(***************************************************************************)
(* Claims about the events of tc_list (checked under SpecTc).              *)
(***************************************************************************)
\* the days tc_list looks for
TargetSet == {TargetDates[i] : i \in 1..Len(TargetDates)}

\* s is the beginning of t
IsPrefix(s, t) == Len(s) <= Len(t) /\ SubSeq(t, 1, Len(s)) = s

\* a step that handled one record of a holding-change list
HandledRecord == tc_last'.seen = tc_last.seen + 1

\* the number of events the record just handled is due
EventsDue(record) ==
    IF /\ record.tzrq \in TargetSet
       /\ Populated(record.cwhj_mr) \/ Populated(record.cwhj_mc)
    THEN 1 ELSE 0

\* C22: every event tc_list holds is dated on a target day; a fetched record
\* dated on a target day that is a buy or a sell adds exactly one event, of
\* that day, stock and portfolio, and every other record adds none.
C22_OneEventPerRecordInTheDates ==
    /\ [](\A i \in 1..Len(tc_results) : tc_results[i].date \in TargetSet)
    /\ [][HandledRecord =>
            LET record == tc_last'.record
                due == EventsDue(record)
            IN /\ IsPrefix(tc_results, tc_results')
               /\ Len(tc_results') = Len(tc_results) + due
               /\ due = 1 =>
                    LET event == tc_results'[Len(tc_results')]
                    IN /\ event.date = record.tzrq
                       /\ event.stock = record.stkMktCode
                       /\ event.id = tc_portfolios[tc_next].id]_vars

\* C22 witness: of two records handled, the one of a target day gave the one
\* event there is and the last one, a buy of the week before, gave none
C22_Witness ==
    /\ tc_last.seen = 2 /\ Len(tc_results) = 1
    /\ tc_last.record # None
    /\ tc_last.record.tzrq \notin TargetSet
    /\ Populated(tc_last.record.cwhj_mr)
    /\ tc_last.events = <<>>

\* C23: a portfolio whose holdings fetch failed (None from
\* fetch_portfolio_holdings, or an exception out of the await) adds no event
\* and tc_list goes on to the next portfolio; no event already collected is
\* ever dropped, and tc_list returns only when every portfolio was awaited.
C23_FailedFetchIsSkipped ==
    [][/\ tc_last'.failed # tc_last.failed =>
            /\ tc_results' = tc_results
            /\ tc_pc' = "await" /\ tc_next' = tc_next + 1
       /\ tc_pc # "idle" => IsPrefix(tc_results, tc_results')
       /\ (tc_pc = "await" /\ tc_pc' = "done") =>
            tc_next > Len(tc_portfolios)]_vars

\* C23 witness: tc_list has returned events although the fetch of its first
\* portfolio failed
C23_Witness ==
    /\ tc_pc = "done"
    /\ 1 \in tc_last.failed
    /\ tc_results # <<>>

(***************************************************************************)
(* The scheduler: setup_schedule registers update_job with the module-wide *)
(* scheduler of the schedule library, start_scheduler polls it once a      *)
(* second, stop_scheduler empties it.                                      *)
(***************************************************************************)
\* the setup_schedule calls without a stop_scheduler between them
MaxSetups == 3
\* the seconds start_scheduler's loop is followed for
MaxClock == 4

\* refresh_interval, in seconds
Intervals == {1, 2}

\* schedule.every(refresh_interval).seconds.do(self.update_job): a job that
\* is first due refresh_interval seconds from now
Job(refresh_interval, at) ==
    [interval |-> refresh_interval, next_run |-> at + refresh_interval]

\* the jobs run_pending finds due
Due(jobs, at) == {i \in 1..Len(jobs) : jobs[i].next_run <= at}

\* run_pending: every due job runs once and is due again one interval later
RunPending(jobs, at) ==
    [i \in 1..Len(jobs) |->
        IF i \in Due(jobs, at) THEN Job(jobs[i].interval, at) ELSE jobs[i]]

InitSched ==
    /\ sc_jobs = <<>>
    /\ sc_now = 0
    /\ sc_running = FALSE
    /\ sc_ran = 0
    /\ DedupeIdle
    /\ FetchIdle
    /\ AggIdle
    /\ StoreIdle
    /\ DateIdle
    /\ TcIdle
    /\ SumIdle
    /\ ConcIdle
    /\ HoldIdle
    /\ JobIdle

\* setup_schedule(refresh_interval): one more job, the ones there are stay
SetupSchedule(refresh_interval) ==
    /\ Len(sc_jobs) < MaxSetups
    /\ sc_jobs' = Append(sc_jobs, Job(refresh_interval, sc_now))
    /\ UNCHANGED <<sc_now, sc_running, sc_ran, notSchedVars>>

\* start_scheduler up to its loop: self.running = True
StartScheduler ==
    /\ ~sc_running
    /\ sc_running' = TRUE
    /\ UNCHANGED <<sc_jobs, sc_now, sc_ran, notSchedVars>>

\* one pass of "while self.running": schedule.run_pending(), time.sleep(1)
SchedulerPass ==
    /\ sc_running
    /\ sc_now < MaxClock
    /\ sc_ran' = Cardinality(Due(sc_jobs, sc_now))
    /\ sc_jobs' = RunPending(sc_jobs, sc_now)
    /\ sc_now' = sc_now + 1
    /\ UNCHANGED <<sc_running, notSchedVars>>

\* stop_scheduler: self.running = False, schedule.clear()
StopScheduler ==
    /\ sc_running
    /\ sc_running' = FALSE
    /\ sc_jobs' = <<>>
    /\ sc_ran' = 0
    /\ UNCHANGED <<sc_now, notSchedVars>>

SettingUp == \E refresh_interval \in Intervals : SetupSchedule(refresh_interval)

NextSched == SettingUp \/ StartScheduler \/ SchedulerPass \/ StopScheduler

SpecSched == InitSched /\ [][NextSched]_vars

(***************************************************************************)
(* Claims about the scheduler (checked under SpecSched).                   *)
(***************************************************************************)
\* C24 (as stated): however often setup_schedule is called, at most one
\* refresh job is registered, and one pass of the scheduler triggers at most
\* one refresh.
C24_AtMostOneJob == Len(sc_jobs) <= 1 /\ sc_ran <= 1

\* C24 (what the code does): a setup_schedule call adds a job and keeps the
\* jobs the calls before it registered; only stop_scheduler removes jobs.
C24_SetupOnlyAdds ==
    [][/\ (sc_running' = sc_running /\ sc_now' = sc_now) =>
            /\ Len(sc_jobs') = Len(sc_jobs) + 1
            /\ SubSeq(sc_jobs', 1, Len(sc_jobs)) = sc_jobs
       /\ Len(sc_jobs') < Len(sc_jobs) => (sc_running /\ ~sc_running')]_vars

(***************************************************************************)
(* More claims about deduplicate_rank_data (checked under SpecDedupe).     *)
(***************************************************************************)
\* the rank an id had in a list before the call: that of its first entry
PriorRank(list, id) ==
    list[CHOOSE i \in 1..Len(list) :
            /\ list[i].zjzh = id
            /\ \A j \in 1..(i - 1) : list[j].zjzh # id].rank

\* C25: in every list the call returns, the survivors stand in the order of
\* the ranks they had in that list before the call and carry the ranks 1..k;
\* every list of the input is in the output, empty if none of its entries
\* survived.
C25_SurvivorsKeepOrderRanksFromOne ==
    [][(dd_pc = "input" /\ dd_pc' = "done") =>
          /\ DOMAIN dd_out' = DOMAIN dd_data
          /\ \A c \in DOMAIN dd_data :
                LET out == dd_out'[c]
                IN /\ \A i \in 1..Len(out) :
                        /\ out[i].rank = i
                        /\ \E j \in 1..Len(dd_data[c]) :
                              dd_data[c][j].zjzh = out[i].zjzh
                   /\ \A i, j \in 1..Len(out) :
                        i < j => PriorRank(dd_data[c], out[i].zjzh)
                                   < PriorRank(dd_data[c], out[j].zjzh)]_vars

\* C25 witness: a list of three entries whose second entry repeats the first
\* came back with two, the third entry now ranked 2
C25_Witness ==
    /\ dd_pc = "done"
    /\ \E c \in DOMAIN dd_out :
          /\ Len(dd_data[c]) = 3 /\ Len(dd_out[c]) = 2
          /\ dd_data[c][2].zjzh = dd_data[c][1].zjzh
          /\ dd_out[c][1].zjzh = dd_data[c][1].zjzh
          /\ dd_out[c][2].zjzh = dd_data[c][3].zjzh
          /\ dd_out[c][2].rank = 2

(***************************************************************************)
(* More claims about fetch_rank_data (checked under SpecAgg).              *)
(***************************************************************************)
\* a step after which fetch_rank_data asks for one more page
AsksAgain ==
    /\ a_pc = "fetching" /\ a_pc' = "fetching"
    /\ a_idx' = a_idx
    /\ a_loop'.asked = a_loop.asked + 1

\* a step in which fetch_rank_data leaves its loop and returns
LoopEnds == a_pc = "fetching" /\ (a_idx' # a_idx \/ a_pc' = "done")

\* C26: fetch_rank_data asks for a further page only while the entries it
\* has are fewer than the target count and only after a page that brought at
\* least as many entries as were asked for (so never after a failed fetch,
\* which brings none); when it stops, whatever the reason, the entries of the
\* pages before are what it returns, ranked from 1 and cut to the target.
C26_PagingStopsAndKeepsPartial ==
    [][/\ AsksAgain =>
            LET had == Len(a_loop.all_data)
                got == Len(a_loop'.all_data) - had
            IN /\ got >= Min(page_size, count - had)
               /\ got > 0
               /\ had + got < count
       /\ LoopEnds =>
            LET arrived == a_last'.arrived
                kept == Min(count, Len(arrived))
            IN /\ IsPrefix(a_loop.all_data, arrived)
               /\ a_last'.returned = (arrived # <<>>)
               /\ Len(a_last'.data) = kept
               /\ \A i \in 1..kept :
                    /\ a_last'.data[i].zjzh = arrived[i]
                    /\ a_last'.data[i].rank = i]_vars

\* C26 witness: the first page came full, the request for the second brought
\* nothing, and the call returned the entries of the first page, ranked
C26_Witness ==
    /\ page_size < count
    /\ a_last.returned
    /\ Len(a_last.arrived) = page_size
    /\ Len(a_last.data) = page_size
    /\ a_last.data[page_size].rank = page_size

(***************************************************************************)
(* More claims about clean_expired_cache (checked under Spec).             *)
(***************************************************************************)
\* C30: a sweep of a store that holds a rank_data_ key whose suffix is no
\* timestamp leaves that key and its value in place, and still removes every
\* rank_data_ entry whose suffix parses to a time before the threshold.
C30_SweepSkipsCorruptKey ==
    [][(s_call'.op = "sweep" /\ CorruptKey \in DOMAIN cache) =>
          /\ CorruptKey \in DOMAIN cache'
          /\ cache'[CorruptKey] = cache[CorruptKey]
          /\ \A k \in DOMAIN cache :
                (k.kind \in {"date", "stamp"}
                    /\ KeyTime(k) < now - s_call'.window) =>
                        k \notin DOMAIN cache']_vars

\* C30 witness: a sweep has emptied the store of its dated entries, the
\* old-format one included, and the key that does not parse is still there
C30_Witness ==
    /\ s_call.op = "sweep"
    /\ DOMAIN cache = {CorruptKey, LatestKey}
    /\ cache[CorruptKey] = OldSnapshot

(***************************************************************************)
(* More claims about tc_list (checked under SpecTc).                       *)
(***************************************************************************)
\* C31 (as stated): tc_list fetches the holding changes of a portfolio once,
\* however many lists of the snapshot its id is on: no id stands twice among
\* the portfolios whose holdings are fetched.
C31_OneFetchPerDistinctId ==
    \A i, j \in 1..Len(tc_portfolios) :
        tc_portfolios[i].id = tc_portfolios[j].id => i = j

\* the entries of the lists of a snapshot that have an id and a name
NamedEntries(data) ==
    UNION {{<<c, i>> : i \in {j \in 1..Len(data[c]) :
                                 /\ data[c][j].zjzh # NoId
                                 /\ data[c][j].zhuheName # NoName}} :
           c \in DOMAIN data}

\* C31 (what the code does): one fetch per entry of a list, so an id that is
\* on two lists of the snapshot is fetched twice.
C31_OneFetchPerListEntry ==
    tc_pc \in {"await", "records"} =>
        Len(tc_portfolios) = Cardinality(NamedEntries(tc_load.cached_data.data))

(***************************************************************************)
(* More claims about the two fetch functions (checked under SpecFetch).    *)
(***************************************************************************)
\* C32 (as stated): a GET of fetch_portfolio_holdings that ends in a timeout
\* or a connection failure is followed by another GET of the same call (the
\* cap of three attempts is not yet reached after the first).
C32_HoldingsRetriesNetworkError ==
    [][\A t \in HoldingsTasks :
          (h_call[t].pc = "request" /\ h_call'[t].last = "net_error") =>
              h_call'[t].pc = "request"]_vars

\* C32 (what the code does): a call makes one GET; whatever that GET comes
\* to, the call goes to its closing sleep and returns, the body after a
\* success and None after anything else.
C32_HoldingsOneGet ==
    [][\A t \in HoldingsTasks :
          (h_call[t].pc = "request" /\ h_call'[t] # h_call[t]) =>
              /\ h_call'[t].pc = "delay"
              /\ (h_call'[t].ret = "data") = (h_call'[t].last = "ok")
              /\ (h_call'[t].ret = "None") = (h_call'[t].last # "ok")]_vars

\* C40: whenever no call is between taking its permit and its end, every
\* permit is in the pool; the pool never holds more permits than its size
\* nor fewer than none.
C40_PermitsNeverLeak ==
    /\ f_permits \in 0..f_size
    /\ (InLoop = {} /\ InBlock = {}) => f_permits = f_size

\* C40 witness: one fetch_with_retry call has returned the body, the other
\* has returned None after an exception in its last attempt, a holdings call
\* has returned None after a status other than 200, and the pool is full
C40_Witness ==
    /\ f_permits = f_size
    /\ \E t \in Tasks : f_call[t].pc = "done" /\ f_call[t].ret = "data"
    /\ \E t \in Tasks :
          /\ f_call[t].pc = "done" /\ f_call[t].ret = "None"
          /\ f_call[t].last \in Raised
    /\ \E t \in HoldingsTasks :
          /\ h_call[t].pc = "done" /\ h_call[t].ret = "None"
          /\ h_call[t].last = "http_error"

(***************************************************************************)
(* More claims about get_target_date (checked under SpecDate).             *)
(***************************************************************************)
\* C37: the day get_target_date returns is a Mon-Fri day, not after the day
\* now - days_back and at most 3 days before it; get_last_trading_day
\* returns, for every day it is given, a Mon-Fri day strictly before that
\* day.
C37_TargetDateWithinThreeDays ==
    /\ td_out # NoDay =>
          LET base == td_in.day - td_in.days_back
          IN /\ DayName(td_out) \in MonToFri
             /\ td_out <= base
             /\ base - td_out <= 3
    /\ \A d \in (td_in.day - MaxDaysBack - 7)..td_in.day :
          LET last == get_last_trading_day(d)
          IN last < d /\ DayName(last) \in MonToFri

\* C37 witness: called before 08:30 on a Monday, it returned the Friday,
\* three days before
C37_Witness ==
    /\ td_out # NoDay
    /\ DayName(td_in.day) = "Mon" /\ td_in.days_back = 0
    /\ td_in.minute < 8 * 60 + 30
    /\ td_out = td_in.day - 3

(***************************************************************************)
(* Entries that are no duplicates (checked under SpecDedupe).              *)
(***************************************************************************)
\* the places <<list, index>> of the entries of a map
Places(data) ==
    UNION {{<<c, i>> : i \in 1..Len(data[c])} : c \in DOMAIN data}

\* the entry at a place has an id field no other entry of the map has
Alone(data, place) ==
    \A other \in Places(data) \ {place} :
        data[other[1]][other[2]].zjzh # data[place[1]][place[2]].zjzh

\* the list of the output that has the name of the entry's list holds an
\* entry with the id field of the entry
KeptInPlace(data, out, place) ==
    \E i \in 1..Len(out[place[1]]) :
        out[place[1]][i].zjzh = data[place[1]][place[2]].zjzh

\* C36 (as stated): every entry of the input whose id field no other entry
\* has is in the output, in its list; so is an entry whose id field is
\* missing or empty.
C36_OnlyDuplicatesRemoved ==
    [][(dd_pc = "input" /\ dd_pc' = "done") =>
          \A place \in Places(dd_data) :
              Alone(dd_data, place) => KeptInPlace(dd_data, dd_out', place)]_vars

\* C36 (what the code does): that holds for the entries that have an id; an
\* entry whose zjzh is missing or empty is in no list of the output.
C36_EntriesWithoutIdDropped ==
    [][(dd_pc = "input" /\ dd_pc' = "done") =>
          /\ \A place \in Places(dd_data) :
                (Alone(dd_data, place)
                    /\ dd_data[place[1]][place[2]].zjzh # NoId) =>
                        KeptInPlace(dd_data, dd_out', place)
          /\ \A c \in DOMAIN dd_out' : \A i \in 1..Len(dd_out'[c]) :
                dd_out'[c][i].zjzh # NoId]_vars

(***************************************************************************)
(* A refresh that reports failure (checked under Spec).                    *)
(***************************************************************************)
\* a step in which run_update ran, called directly or by the read-through,
\* and returned False
CycleFailed == s_call'.cycles = 1 /\ ~s_call'.ok

\* the step left the value under the latest key as it was
LatestUntouched ==
    /\ HasLatest(cache') = HasLatest(cache)
    /\ HasLatest(cache) => cache'[LatestKey] = cache[LatestKey]

\* C35 (as stated): whenever run_update reports failure, the value under the
\* latest key is what it was before the cycle, also in a crawler whose
\* module was imported.
C35_FailedCycleLeavesLatest == [][CycleFailed => LatestUntouched]_vars

\* C35 (what the code does): that holds where the module runs as __main__;
\* imported, a cycle that fetched something reports failure after it has
\* written its snapshot under the latest key.
C35_HoldsAsMain ==
    [][/\ (CycleFailed /\ s_main) => LatestUntouched
       /\ (CycleFailed /\ ~s_main /\ s_call'.fetched # EmptyMap) =>
            /\ HasLatest(cache')
            /\ cache'[LatestKey] = s_call'.merged]_vars

(***************************************************************************)
(* SpecJob: the thread of start_scheduler, step by step, with the worker   *)
(* thread update_job hands run_update to and the thread that calls         *)
(* setup_schedule, start_scheduler_in_thread and stop_scheduler.           *)
(***************************************************************************)
MaxJobs == 2
MaxRefreshes == 3

\* datetime.strptime('09:15', '%H:%M').time() and the other three, as the
\* second of the day; a time of day is a second and a microsecond
morning_start == [second |-> 9 * 3600 + 15 * 60, microsecond |-> 0]
morning_end == [second |-> 11 * 3600 + 30 * 60, microsecond |-> 0]
afternoon_start == [second |-> 13 * 3600, microsecond |-> 0]
afternoon_end == [second |-> 15 * 3600, microsecond |-> 0]

\* a <= b of two datetime.time values
TimeLe(a, b) ==
    \/ a.second < b.second
    \/ a.second = b.second /\ a.microsecond <= b.microsecond

is_trading_time_open_bounds(clock) ==
    /\ clock.weekday < 5
    /\ \/ ~TimeLe(clock, morning_start) /\ ~TimeLe(morning_end, clock)
       \/ ~TimeLe(clock, afternoon_start) /\ ~TimeLe(afternoon_end, clock)

\* is_trading_time, of datetime.now() (weekday() is 0 on a Monday)
is_trading_time(clock) ==
    IF clock.weekday >= 5
    THEN FALSE
    ELSE LET is_morning ==
                 TimeLe(morning_start, clock) /\ TimeLe(clock, morning_end)
             is_afternoon ==
                 TimeLe(afternoon_start, clock) /\ TimeLe(clock, afternoon_end)
         IN  is_morning \/ is_afternoon

\* the values of datetime.now() an update_job is called at
Clocks ==
    [weekday : {0, 4, 5, 6},
     second : {morning_start.second - 1, morning_start.second,
               morning_end.second, afternoon_start.second,
               afternoon_end.second},
     microsecond : {0, 1}]

\* a run_update that update_job has just submitted to its executor
NewRefresh == [pc |-> "fetching", got |-> FALSE, abandoned |-> FALSE]

\* the refresh of the update_job the scheduler thread is in
Current == Len(j_refresh)

\* the module is run as a script (the value is one the configuration block
\* may hold) or imported (the name is not defined)
InitJob ==
    /\ j_cfg \in {"unset", "off", "on"}
    /\ j_jobs = 0
    /\ j_running = FALSE
    /\ j_pc = "off"
    /\ j_todo = 0
    /\ j_clock = NoClock
    /\ j_refresh = <<>>
    /\ j_latest = 0
    /\ DedupeIdle
    /\ FetchIdle
    /\ AggIdle
    /\ StoreIdle
    /\ DateIdle
    /\ TcIdle
    /\ SumIdle
    /\ ConcIdle
    /\ HoldIdle
    /\ SchedIdle

\* setup_schedule: schedule.every(n).seconds.do(self.update_job)
JobSetup ==
    /\ j_jobs < MaxJobs
    /\ j_jobs' = j_jobs + 1
    /\ UNCHANGED <<j_cfg, j_running, j_pc, j_todo, j_clock, j_refresh, j_latest>>
    /\ UNCHANGED notJobVars

\* start_scheduler_in_thread, when no thread of an earlier call is alive:
\* the new thread sets self.running and reaches the test of the loop
JobStart ==
    /\ j_pc = "off"
    /\ j_running' = TRUE
    /\ j_pc' = "test"
    /\ UNCHANGED <<j_cfg, j_jobs, j_todo, j_clock, j_refresh, j_latest>>
    /\ UNCHANGED notJobVars

\* stop_scheduler, from the thread that started the scheduler
JobStop ==
    /\ j_running' = FALSE
    /\ j_jobs' = 0
    /\ UNCHANGED <<j_cfg, j_pc, j_todo, j_clock, j_refresh, j_latest>>
    /\ UNCHANGED notJobVars

\* while self.running:
LoopTest ==
    /\ j_pc = "test"
    /\ j_pc' = IF j_running THEN "collect" ELSE "off"
    /\ UNCHANGED <<j_cfg, j_jobs, j_running, j_todo, j_clock, j_refresh,
                   j_latest>>
    /\ UNCHANGED notJobVars

\* schedule.run_pending: the jobs that are due, of those registered now, are
\* put in a list before the first of them runs
LoopCollect ==
    /\ j_pc = "collect"
    /\ \E due \in 0..j_jobs : j_todo' = due
    /\ j_pc' = "pending"
    /\ UNCHANGED <<j_cfg, j_jobs, j_running, j_clock, j_refresh, j_latest>>
    /\ UNCHANGED notJobVars

\* run_pending has run every job of its list: time.sleep(1)
LoopSleep ==
    /\ j_pc = "pending"
    /\ j_todo = 0
    /\ j_pc' = "sleep"
    /\ j_clock' = NoClock
    /\ UNCHANGED <<j_cfg, j_jobs, j_running, j_todo, j_refresh, j_latest>>
    /\ UNCHANGED notJobVars

LoopWake ==
    /\ j_pc = "sleep"
    /\ j_pc' = "test"
    /\ UNCHANGED <<j_cfg, j_jobs, j_running, j_todo, j_clock, j_refresh,
                   j_latest>>
    /\ UNCHANGED notJobVars

\* run_pending calls the next job of its list, update_job, up to
\* future.result(timeout=120): the name ENABLE_TRADING_TIME_CHECK is not
\* defined in an imported module and the NameError ends the thread; outside
\* the trading time the job returns; otherwise it submits run_update
UpdateJob(clock) ==
    /\ j_pc = "pending"
    /\ j_todo > 0
    /\ Len(j_refresh) < MaxRefreshes
    /\ j_todo' = j_todo - 1
    /\ j_clock' = clock
    /\ IF j_cfg = "unset"
       THEN /\ j_pc' = "off"
            /\ j_refresh' = j_refresh
       ELSE IF j_cfg = "on" /\ ~is_trading_time(clock)
       THEN /\ j_pc' = "pending"
            /\ j_refresh' = j_refresh
       ELSE /\ j_pc' = "wait"
            /\ j_refresh' = Append(j_refresh, NewRefresh)
    /\ UNCHANGED <<j_cfg, j_jobs, j_running, j_latest>>
    /\ UNCHANGED notJobVars

\* run_update in the worker thread: fetch_all_rank_data; with no category
\* fetched it returns False, and nothing was saved
RefreshFetch(i, got) ==
    /\ i \in 1..Len(j_refresh)
    /\ j_refresh[i].pc = "fetching"
    /\ j_refresh' = [j_refresh EXCEPT ![i].got = got,
                                      ![i].pc = IF got THEN "saving" ELSE "done"]
    /\ UNCHANGED <<j_cfg, j_jobs, j_running, j_pc, j_todo, j_clock, j_latest>>
    /\ UNCHANGED notJobVars

\* run_update in the worker thread: save_rank_data sets 'latest'
RefreshSave(i) ==
    /\ i \in 1..Len(j_refresh)
    /\ j_refresh[i].pc = "saving"
    /\ j_latest' = i
    /\ j_refresh' = [j_refresh EXCEPT ![i].pc = "done"]
    /\ UNCHANGED <<j_cfg, j_jobs, j_running, j_pc, j_todo, j_clock>>
    /\ UNCHANGED notJobVars

\* future.result returns: the worker is done, and leaving the with block
\* (executor.shutdown(wait=True)) has nothing to wait for
JobResult ==
    /\ j_pc = "wait"
    /\ j_refresh[Current].pc = "done"
    /\ j_pc' = "pending"
    /\ j_clock' = NoClock
    /\ UNCHANGED <<j_cfg, j_jobs, j_running, j_todo, j_refresh, j_latest>>
    /\ UNCHANGED notJobVars

JobTimeoutCancelling ==
    /\ j_pc = "wait"
    /\ j_refresh[Current].pc # "done"
    /\ j_refresh' = [j_refresh EXCEPT ![Current].abandoned = TRUE,
                                      ![Current].pc = "done"]
    /\ j_pc' = "shutdown"
    /\ j_clock' = NoClock
    /\ UNCHANGED <<j_cfg, j_jobs, j_running, j_todo, j_latest>>
    /\ UNCHANGED notJobVars

JobTimeoutReturning ==
    /\ j_pc = "wait"
    /\ j_refresh[Current].pc # "done"
    /\ j_refresh' = [j_refresh EXCEPT ![Current].abandoned = TRUE]
    /\ j_pc' = "pending"
    /\ j_clock' = NoClock
    /\ UNCHANGED <<j_cfg, j_jobs, j_running, j_todo, j_latest>>
    /\ UNCHANGED notJobVars

\* future.result raises TimeoutError after 120 s: the error is logged and
\* the with block is left, which waits in executor.shutdown(wait=True)
JobTimeout ==
    /\ j_pc = "wait"
    /\ j_refresh[Current].pc # "done"
    /\ j_refresh' = [j_refresh EXCEPT ![Current].abandoned = TRUE]
    /\ j_pc' = "shutdown"
    /\ j_clock' = NoClock
    /\ UNCHANGED <<j_cfg, j_jobs, j_running, j_todo, j_latest>>
    /\ UNCHANGED notJobVars

\* executor.shutdown(wait=True) returns when the worker thread has finished
JobShutdown ==
    /\ j_pc = "shutdown"
    /\ j_refresh[Current].pc = "done"
    /\ j_pc' = "pending"
    /\ j_clock' = NoClock
    /\ UNCHANGED <<j_cfg, j_jobs, j_running, j_todo, j_refresh, j_latest>>
    /\ UNCHANGED notJobVars

JobCalling == \E clock \in Clocks : UpdateJob(clock)

JobFetching == \E i \in 1..MaxRefreshes, got \in BOOLEAN : RefreshFetch(i, got)

JobSaving == \E i \in 1..MaxRefreshes : RefreshSave(i)

NextJob ==
    \/ JobSetup
    \/ JobStart
    \/ JobStop
    \/ LoopTest
    \/ LoopCollect
    \/ LoopSleep
    \/ LoopWake
    \/ JobCalling
    \/ JobFetching
    \/ JobSaving
    \/ JobResult
    \/ JobTimeout
    \/ JobShutdown

SpecJob == InitJob /\ [][NextJob]_vars

\* the worker thread is scheduled while it has a step to take
SpecJobFair ==
    /\ SpecJob
    /\ WF_vars(JobFetching)
    /\ WF_vars(JobSaving)

JobTypeOK ==
    /\ j_jobs \in 0..MaxJobs
    /\ j_todo \in 0..MaxJobs
    /\ Len(j_refresh) \in 0..MaxRefreshes
    /\ j_latest \in 0..Len(j_refresh)

\* a time the upstream's trading hours hold, both ends of both spans in them
Within(clock, first, last) ==
    /\ first <= clock.second
    /\ \/ clock.second < last
       \/ clock.second = last /\ clock.microsecond = 0

DesignatedHours(clock) ==
    /\ clock.weekday \in 0..4
    /\ \/ Within(clock, 9 * 3600 + 15 * 60, 11 * 3600 + 30 * 60)
       \/ Within(clock, 13 * 3600, 15 * 3600)

\* the scheduler thread enters update_job in this step
UpdateJobCalled == j_pc = "pending" /\ j_todo' = j_todo - 1

\* C34: with the trading-time check enabled, an update_job called on a
\* Saturday or a Sunday, or at a time outside 09:15-11:30 and 13:00-15:00
\* (the four bounds are inside), starts no refresh and leaves 'latest' as it
\* is; called inside those hours it starts one refresh, and only one
C34_TradingTimeGate ==
    [][(UpdateJobCalled /\ j_cfg = "on") =>
          IF DesignatedHours(j_clock')
          THEN /\ j_refresh' = Append(j_refresh, NewRefresh)
               /\ j_pc' = "wait"
          ELSE /\ j_refresh' = j_refresh
               /\ j_latest' = j_latest
               /\ j_pc' = "pending"]_vars

\* C34: the check is enabled; a refresh called for at 11:30:00 of a Friday
\* has stored its snapshot, and the update_job called a microsecond after
\* 15:00:00 of a Monday has returned with no second refresh
C34_Witness ==
    /\ j_cfg = "on"
    /\ Len(j_refresh) = 1
    /\ j_refresh[1].pc = "done"
    /\ j_latest = 1
    /\ j_pc = "pending"
    /\ j_clock = [weekday |-> 0, second |-> 15 * 3600, microsecond |-> 1]

\* C34: the first update_job of a scheduler was called at the last instant
\* of the morning span and is waiting for the refresh it started
C34_InsideAtBound ==
    /\ j_cfg = "on"
    /\ j_pc = "wait"
    /\ Len(j_refresh) = 1
    /\ j_clock = [weekday |-> 4, second |-> 11 * 3600 + 30 * 60,
                  microsecond |-> 0]

\* the refresh i has finished in this step
Finishes(i) ==
    /\ i \in 1..Len(j_refresh)
    /\ j_refresh[i].pc # "done"
    /\ j_refresh'[i].pc = "done"

\* C33 (the steps): the refresh of an update_job that gave up waiting is
\* ended by nothing but its own last step, and when it has fetched a
\* category that step has put its snapshot under 'latest'
C33_AbandonedRefreshStores ==
    [][\A i \in 1..MaxRefreshes :
          (Finishes(i) /\ j_refresh'[i].abandoned) =>
              /\ j_refresh[i].abandoned
              /\ j_refresh[i].pc = "saving" => j_latest' = i
              /\ j_refresh[i].pc = "fetching" => ~j_refresh'[i].got
              /\ j_refresh'[i].got => j_latest' = i]_vars

\* the refreshes whose update_job gave up waiting and that have not finished
AbandonedRunning ==
    {i \in 1..Len(j_refresh) :
        j_refresh[i].abandoned /\ j_refresh[i].pc # "done"}

\* C33 (the end): the refresh of an update_job that gave up waiting finishes
C33_AbandonedRefreshCompletes ==
    (AbandonedRunning # {}) ~> (AbandonedRunning = {})

\* C33: a scheduler-triggered refresh whose update_job stopped waiting for
\* it (the 120 s timeout fired) is not cancelled: it runs to its end and,
\* when it fetched at least one category, its snapshot is stored as 'latest'
C33_AbandonedRefreshRunsOn ==
    C33_AbandonedRefreshStores /\ C33_AbandonedRefreshCompletes

\* C33: the timeout fired for the first refresh while it was fetching; the
\* refresh has fetched a category since, has stored its snapshot as
\* 'latest' and is done, and update_job has returned
C33_Witness ==
    /\ Len(j_refresh) = 1
    /\ j_refresh[1] = [pc |-> "done", got |-> TRUE, abandoned |-> TRUE]
    /\ j_latest = 1
    /\ j_pc = "pending"

\* the refreshes of the scheduler that have not finished
RefreshesInFlight == {i \in 1..Len(j_refresh) : j_refresh[i].pc # "done"}

\* the scheduler thread is inside update_job, past the submit
InUpdateJob == j_pc \in {"wait", "shutdown"}

\* C38: the refreshes the scheduler starts never overlap: update_job does
\* not return before its refresh has finished, also when its timeout has
\* fired, so at most one refresh is in flight and it is the one of the
\* update_job the scheduler thread is in
C38_RefreshesNeverOverlap ==
    /\ Cardinality(RefreshesInFlight) <= 1
    /\ ~InUpdateJob => RefreshesInFlight = {}
    /\ InUpdateJob => RefreshesInFlight \subseteq {Current}

\* C38: the timeout of the first update_job fired while its refresh was
\* fetching; that refresh has finished since, and the refresh of the next
\* update_job is the only one in flight
C38_Witness ==
    /\ Len(j_refresh) = 2
    /\ j_refresh[1].abandoned
    /\ j_refresh[1].pc = "done"
    /\ j_refresh[2].pc = "fetching"
    /\ j_pc = "wait"

\* C39: once stop_scheduler has been called, and until start_scheduler is
\* called again, the scheduler starts no refresh
C39_NoRefreshAfterStop ==
    [][Len(j_refresh') > Len(j_refresh) => j_running]_vars

\* C39 (what the code does): stop_scheduler interrupts nothing; the
\* scheduler thread and every refresh are where they were, and each job the
\* running run_pending had listed is still to run
C39_StopInterruptsNothing ==
    [][(j_running /\ ~j_running') =>
          /\ j_refresh' = j_refresh
          /\ j_pc' = j_pc
          /\ j_todo' = j_todo
          /\ j_jobs' = 0]_vars

====
